---- MODULE Spec2Model ----
(***************************************************************************)
(* gitboard: export of GitHub starred repositories to Pinboard bookmarks.  *)
(*                                                                         *)
(* Spec        the export package: Exporter.Run driving its two            *)
(*             collaborators (GitHubClient, PinboardClient) against a      *)
(*             bookmark store, run after run.                              *)
(* SpecClient  the pinboard package: Client.AddBookmark with its           *)
(*             rate-limit gate, over a discrete clock, and its judgement   *)
(*             of the server's answer.                                     *)
(* SpecTags    NormaliseTags and RepoToBookmark applied to bounded inputs. *)
(* SpecGithub  the github package: Client.GetStarredRepos following the    *)
(*             Link headers of a server that may answer anything.          *)
(* SpecLookup  the pinboard package: Client.GetBookmarkURLsByTag applied   *)
(*             to the server's answer.                                     *)
(* SpecMain    main: credentials, one run of the Exporter, the summary.    *)
(* SpecDryReal a dry run of the Exporter followed by a real run over the   *)
(*             same answers of both collaborators.                         *)
(* SpecGithubFair  SpecGithub with the call left to take its next step.    *)
(* SpecTagsTwice   NormaliseTags applied to its own result.                *)
(* SpecHeader  extractNextURL applied to Link headers built from entries.  *)
(***************************************************************************)
EXTENDS Integers, Sequences, FiniteSets, TLC

VARIABLES
    \* ---- export: the world around the Exporter
    starred,      \* what the GitHub account has starred (the fetcher's answer)
    store,        \* the Pinboard account: a set of bookmarks
    \* ---- export: the Exporter's fields
    dryRun,       \* Exporter.DryRun
    hasProgress,  \* Exporter.OnProgress != nil
    \* ---- export: Run's locals and position
    pc,           \* "fetch", "lookup", "loop", "decide", "done"
    repos, existing, total, added, skipped, i,
    result, err,  \* what Run returned (when pc = "done")
    trace,        \* the collaborator calls and progress events of this run, in order
    runNo,        \* the number of the current run, from 1
    prev,         \* the previous run on the same store: its DryRun, and whether it returned nil
    \* ---- pinboard: the Client, its caller's context, and the clock
    now,          \* the clock (time.Now)
    lastCall,     \* Client.lastCall (NoTime: the zero time.Time)
    cpc,          \* AddBookmark's position: "idle", "timer", "select", "parked", "woken", "send", "returned"
    elapsed,      \* the local elapsed of the call in progress
    deadline,     \* when the call's timer fires (NoTime: no timer)
    wake,         \* which case of the select a parked call was woken by
    ctxErr,       \* ctx.Err(): NoErr until the caller's context is done
    waitCancel,   \* the context was cancelled while this call was parked in the wait
    ret,          \* what the call returned
    passes,       \* the times at which calls got past the gate, in order
    requests,     \* number of HTTP requests the client has sent
    reqAtCall,    \* requests when the call in progress began
    lastAtCall,   \* lastCall when the call in progress began
    nCalls,       \* the number of AddBookmark calls begun
    response,     \* the answer the current call got from the server, NoResponse if none
    \* ---- export: NormaliseTags and RepoToBookmark called on their own
    repoIn,       \* the StarredRepo passed in
    tagsOut,      \* what NormaliseTags(repoIn.Topics) returned
    bookmarkOut,  \* what RepoToBookmark(repoIn) returned
    tpc,          \* "in", "tags", "bookmark"
    \* ---- github: Client.GetStarredRepos
    url,          \* the local url: the page to request next, <<>> for ""
    allRepos,     \* the local allRepos: a slice, nil until the first append
    served,       \* the requests made and what the server answered, in order
    gpc,          \* "loop", "returned"
    gret,         \* what GetStarredRepos returned: (repos, err)
    \* ---- pinboard: Client.GetBookmarkURLsByTag
    lookupResp,   \* the server's answer to posts/all
    lookupRet,    \* what GetBookmarkURLsByTag returned: (urls, err)
    lpc,          \* "send", "returned"
    \* ---- main
    flags,        \* the command line: github-token, pinboard-token, dry-run
    env,          \* the environment: GITHUB_TOKEN, PINBOARD_TOKEN
    githubToken,  \* *githubToken
    pinboardToken, \* *pinboardToken
    mpc,          \* "start", "check", "running", "exited"
    stdout,       \* the lines printed to standard output
    fatal,        \* what log.Fatal printed before exiting, <<>> if it was not called
    \* ---- github: extractNextURL called on its own
    linkIn,       \* the Link header passed in, as its comma-separated entries
    nextURL,      \* what extractNextURL returned
    hpc           \* "in", "out"

exportVars == <<starred, store, dryRun, hasProgress, pc, repos, existing, total,
                added, skipped, i, result, err, trace, runNo, prev>>
clientVars == <<now, lastCall, cpc, elapsed, deadline, wake, ctxErr, waitCancel,
                ret, passes, requests, reqAtCall, lastAtCall, nCalls, response>>
tagVars    == <<repoIn, tagsOut, bookmarkOut, tpc>>
githubVars == <<url, allRepos, served, gpc, gret>>
lookupVars == <<lookupResp, lookupRet, lpc>>
mainVars   == <<flags, env, githubToken, pinboardToken, mpc, stdout, fatal>>
headerVars == <<linkIn, nextURL, hpc>>
vars == <<exportVars, clientVars, tagVars, githubVars, lookupVars, mainVars, headerVars>>

\* what the actions of one package leave alone: the state of the others
notExport == <<clientVars, tagVars, githubVars, lookupVars, mainVars, headerVars>>
notClient == <<exportVars, tagVars, githubVars, lookupVars, mainVars, headerVars>>
notTags   == <<exportVars, clientVars, githubVars, lookupVars, mainVars, headerVars>>
notGithub == <<exportVars, clientVars, tagVars, lookupVars, mainVars, headerVars>>
notLookup == <<exportVars, clientVars, tagVars, githubVars, mainVars, headerVars>>
notMainNorExport == <<clientVars, tagVars, githubVars, lookupVars, headerVars>>
notHeader == <<exportVars, clientVars, tagVars, githubVars, lookupVars, mainVars>>

----------------------------------------------------------------------------
(* Bounds *)

MaxRepos == 3   \* longest starred list
MaxRuns  == 2   \* runs of the Exporter against one store
MaxTime  == 8   \* the clock stops here
MaxCalls == 3   \* AddBookmark calls on one Client
MaxTopics   == 2   \* longest topic list given to NormaliseTags
MaxTopicLen == 2   \* longest topic, in characters
MaxRequests == 3   \* page requests made by one GetStarredRepos call
MaxHrefs    == 3   \* bookmarks in one answer to posts/all

----------------------------------------------------------------------------
(* Strings that the code takes apart are sequences of one-character strings *)

Upper == <<"A","B","C","D","E","F","G","H","I","J","K","L","M",
           "N","O","P","Q","R","S","T","U","V","W","X","Y","Z">>
Lower == <<"a","b","c","d","e","f","g","h","i","j","k","l","m",
           "n","o","p","q","r","s","t","u","v","w","x","y","z">>

\* strings.ToLower, one character
ToLowerChar(c) ==
    IF \E k \in 1..Len(Upper) : Upper[k] = c
    THEN Lower[CHOOSE k \in 1..Len(Upper) : Upper[k] = c]
    ELSE c

\* strings.ToLower
ToLower(s) == [k \in 1..Len(s) |-> ToLowerChar(s[k])]

\* a replacement that also turns a hyphen back into a space
ReplaceSpacesSwap(s) ==
    [k \in 1..Len(s) |-> IF s[k] = " " THEN "-" ELSE IF s[k] = "-" THEN " " ELSE s[k]]

\* strings.ReplaceAll(s, " ", "-")
ReplaceSpaces(s) == [k \in 1..Len(s) |-> IF s[k] = " " THEN "-" ELSE s[k]]

\* the tag every exported bookmark carries: "github-repo"
Sentinel == <<"g","i","t","h","u","b","-","r","e","p","o">>

\* NormaliseTags with the space replacement left out
NormaliseTagsNoHyphen(topics) ==
    [k \in 1..Len(topics) |-> ToLower(topics[k])]

NormaliseTags(topics) ==
    IF Len(topics) = 0 THEN <<>>
    ELSE [k \in 1..Len(topics) |-> ToLower(ReplaceSpaces(topics[k]))]

\* RepoToBookmark without the leading "github-repo" tag
RepoToBookmarkNoSentinel(repo) ==
    [URL |-> repo.HTMLURL, Title |-> repo.FullName, Description |-> repo.Description,
     Tags |-> NormaliseTags(repo.Topics), Private |-> TRUE, ToRead |-> FALSE]

RepoToBookmarkRawTopics(repo) ==
    [URL |-> repo.HTMLURL, Title |-> repo.FullName, Description |-> repo.Description,
     Tags |-> <<Sentinel>> \o repo.Topics, Private |-> TRUE, ToRead |-> FALSE]

RepoToBookmark(repo) ==
    LET tags == <<Sentinel>>
        normalisedTopics == NormaliseTags(repo.Topics)
    IN  [URL         |-> repo.HTMLURL,
         Title       |-> repo.FullName,
         Description |-> repo.Description,
         Tags        |-> tags \o normalisedTopics,
         Private     |-> TRUE,
         ToRead      |-> FALSE]

\* the elements put together with nothing between them
RECURSIVE JoinNoSeparator(_, _)
JoinNoSeparator(elems, sep) ==
    IF elems = <<>> THEN <<>>
    ELSE elems[1] \o JoinNoSeparator(Tail(elems), sep)

\* strings.Join
RECURSIVE Join(_, _)
Join(elems, sep) ==
    IF elems = <<>> THEN <<>>
    ELSE IF Len(elems) = 1 THEN elems[1]
    ELSE elems[1] \o <<sep>> \o Join(Tail(elems), sep)

\* the position of the first sep in s, 0 if there is none
RECURSIVE Index(_, _, _)
Index(s, sep, k) ==
    IF k > Len(s) THEN 0
    ELSE IF s[k] = sep THEN k
    ELSE Index(s, sep, k + 1)

\* strings.Split: the pieces between the separators, one more than there are separators
RECURSIVE Split(_, _)
Split(s, sep) ==
    LET k == Index(s, sep, 1)
    IN  IF k = 0 THEN <<s>>
        ELSE <<SubSeq(s, 1, k - 1)>> \o Split(SubSeq(s, k + 1, Len(s)), sep)

----------------------------------------------------------------------------
(* export: the world *)

NoErr == "nil"

RepoA == [FullName |-> "a/one", HTMLURL |-> "U1", Description |-> "The Go language",
          Topics |-> << <<"G","o">> >>]
RepoB == [FullName |-> "b/two", HTMLURL |-> "U2", Description |-> "",
          Topics |-> <<>>]
RepoC == [FullName |-> "c/three", HTMLURL |-> "U3", Description |-> "third",
          Topics |-> << <<"M","y"," ","T","a","g">>, <<"g","o">> >>]
Repos == {RepoA, RepoB, RepoC}

SeqsUpTo(S, n) == UNION {[1..k -> S] : k \in 0..n}

\* bookmarks the account may hold before the first run: two exported earlier,
\* one made by hand (no "github-repo" tag)
PreBookmarks ==
    { [URL |-> "U1", Title |-> "a/one", Description |-> "old", Tags |-> <<Sentinel>>,
       Private |-> TRUE, ToRead |-> FALSE],
      [URL |-> "U3", Title |-> "c/three", Description |-> "old",
       Tags |-> <<Sentinel, <<"g","o">> >>, Private |-> TRUE, ToRead |-> FALSE],
      [URL |-> "U2", Title |-> "by hand", Description |-> "", Tags |-> << <<"g","o">> >>,
       Private |-> FALSE, ToRead |-> TRUE] }

FetchErrs  == {"github: status 500", "github: decode"}
LookupErrs == {"pinboard: get status 500"}
WriteErrs  == {"pinboard: API error", "context canceled"}

Range(s) == {s[k] : k \in 1..Len(s)}

\* what the store answers to posts/all?tag=...: the hrefs of the bookmarks carrying the tag
StoreURLsByTag(st, tag) == {b.URL : b \in {x \in st : tag \in Range(x.Tags)}}

\* posts/add without replace=yes: a bookmark already there is kept beside the new one
UpsertNoReplace(st, b) == st \cup {b}

\* posts/add with replace=yes: the bookmark of that URL is created or replaced
Upsert(st, b) == {x \in st : x.URL # b.URL} \cup {b}

\* the query of a request that does not ask for replacement
AddRequestNoReplace(b) ==
    [url         |-> b.URL,
     description |-> b.Title,
     extended    |-> b.Description,
     tags        |-> Join(b.Tags, " "),
     replace     |-> "no",
     format      |-> "json",
     shared      |-> IF b.Private THEN "no" ELSE "yes",
     toread      |-> IF b.ToRead THEN "yes" ELSE "no"]

\* the query parameters AddBookmark sends to posts/add (auth_token left out)
AddRequest(b) ==
    [url         |-> b.URL,
     description |-> b.Title,
     extended    |-> b.Description,
     tags        |-> Join(b.Tags, " "),
     replace     |-> "yes",
     format      |-> "json",
     shared      |-> IF b.Private THEN "no" ELSE "yes",
     toread      |-> IF b.ToRead THEN "yes" ELSE "no"]

\* the bookmark the store keeps for a posts/add query: tags are the space-separated
\* words of the tags parameter
BookmarkOfRequest(q) ==
    [URL         |-> q.url,
     Title       |-> q.description,
     Description |-> q.extended,
     Tags        |-> SelectSeq(Split(q.tags, " "), LAMBDA t : t # <<>>),
     Private     |-> q.shared = "no",
     ToRead      |-> q.toread = "yes"]

\* the store after it has taken a posts/add query
PostsAdd(st, q) ==
    IF q.replace = "yes"
    THEN Upsert(st, BookmarkOfRequest(q))
    ELSE UpsertNoReplace(st, BookmarkOfRequest(q))

ZeroResult == [Total |-> 0, Added |-> 0, Skipped |-> 0]
NoResult   == [Total |-> -1, Added |-> -1, Skipped |-> -1]
NoRun      == [run |-> 0]

----------------------------------------------------------------------------
(* pinboard: constants *)

NoTime   == -1   \* the zero time.Time
MinDelay == 3    \* Client.minDelay, in seconds

\* error values: a message and the error it wraps (%w), "" when it wraps none
Bare(e)       == [msg |-> e, cause |-> ""]
Wrap(msg, e)  == [msg |-> msg, cause |-> e]
NotReturned   == Bare("not returned")

\* no answer: httpClient.Do returned an error, or was not called
NoResponse == [transport |-> FALSE, readOk |-> FALSE, status |-> 0, body |-> ""]

ClientIdle ==
    /\ now = 0 /\ lastCall = NoTime /\ cpc = "idle" /\ elapsed = 0
    /\ deadline = NoTime /\ wake = "none" /\ ctxErr = NoErr /\ waitCancel = FALSE
    /\ ret = NotReturned /\ passes = <<>> /\ requests = 0 /\ reqAtCall = 0
    /\ lastAtCall = NoTime /\ nCalls = 0 /\ response = NoResponse

\* NormaliseTags and RepoToBookmark not in use
TagsIdle ==
    /\ repoIn = RepoB /\ tagsOut = <<>> /\ bookmarkOut = RepoToBookmark(RepoB)
    /\ tpc = "idle"

\* a slice: nil, or (possibly empty) elements
NilSlice      == [isNil |-> TRUE,  elems |-> <<>>]
EmptySlice    == [isNil |-> FALSE, elems |-> <<>>]
SliceOf(elems) == [isNil |-> FALSE, elems |-> elems]

\* GetStarredRepos not in use
GithubIdle ==
    /\ url = <<>> /\ allRepos = NilSlice /\ served = <<>> /\ gpc = "idle"
    /\ gret = [repos |-> NilSlice, err |-> Bare(NoErr)]

\* a map[string]bool: nil, or keys with their values
NilMap == [isNil |-> TRUE, m |-> <<>>]
MakeMap == [isNil |-> FALSE, m |-> <<>>]

\* GetBookmarkURLsByTag not in use
LookupIdle ==
    /\ lookupResp = [transport |-> FALSE, status |-> 0, readOk |-> FALSE,
                     body |-> [json |-> FALSE, hrefs |-> <<>>]]
    /\ lookupRet = [urls |-> NilMap, err |-> NotReturned]
    /\ lpc = "idle"

\* extractNextURL not in use
HeaderIdle ==
    /\ linkIn = [entries |-> <<>>, sep |-> <<>>]
    /\ nextURL = <<>>
    /\ hpc = "idle"

\* main not in use
MainIdle ==
    /\ flags = [github |-> "", pinboard |-> "", dryRun |-> FALSE]
    /\ env = [GITHUB_TOKEN |-> "", PINBOARD_TOKEN |-> ""]
    /\ githubToken = "" /\ pinboardToken = "" /\ mpc = "idle"
    /\ stdout = <<>> /\ fatal = <<>>

----------------------------------------------------------------------------
(* export: Exporter.Run *)

\* the item the loop is at (Go's i is 0-based)
\* the items taken from the end of the fetched sequence
CurRepoReversed == repos[Len(repos) - i]
CurRepo     == repos[i + 1]
CurBookmark == RepoToBookmark(CurRepo)
\* the membership test made on the title instead of the URL
IsSkippedByTitle == CurBookmark.Title \in existing
\* an item also skipped when an earlier item of the run had its URL
IsSkippedOrSeen ==
    \/ CurBookmark.URL \in existing
    \/ \E j \in 1..i : repos[j].HTMLURL = CurBookmark.URL
\* isSkipped := existing[bookmark.URL] on a map[string]bool
IsSkipped   == CurBookmark.URL \in existing
\* a loop that writes in a dry run too
WritesIgnoringDryRun == ~IsSkipped
\* the item is not skipped and the run is no dry run: AddBookmark is called
Writes      == ~IsSkipped /\ ~dryRun

RunLocalsInit ==
    /\ pc = "fetch" /\ repos = <<>> /\ existing = {} /\ total = 0 /\ added = 0
    /\ skipped = 0 /\ i = 0 /\ result = NoResult /\ err = NoErr /\ trace = <<>>

Init ==
    /\ starred \in SeqsUpTo(Repos, MaxRepos)
    /\ store \in SUBSET PreBookmarks
    /\ dryRun \in BOOLEAN
    /\ hasProgress \in BOOLEAN
    /\ RunLocalsInit
    /\ runNo = 1
    /\ prev = NoRun
    /\ ClientIdle
    /\ TagsIdle
    /\ GithubIdle
    /\ LookupIdle
    /\ HeaderIdle
    /\ MainIdle

\* return Result{...}, err
Return(res, e) ==
    /\ result' = res
    /\ err' = e
    /\ pc' = "done"

\* repos, err := e.gh.GetStarredRepos(ctx), answered with the starred list
FetchOk ==
    /\ pc = "fetch"
    /\ repos' = starred
    /\ trace' = Append(trace, [op |-> "GetStarredRepos", err |-> NoErr])
    /\ pc' = "lookup"
    /\ UNCHANGED <<notExport, starred, store, dryRun, hasProgress, existing, total, added,
                   skipped, i, result, err, runNo, prev>>

\* the fetch error replaced by an error of Run's own
FetchFailReturnWrapped(e) == Return(ZeroResult, "export: fetch failed")

\* if err != nil { return Result{}, err } after GetStarredRepos
FetchFailReturn(e) == Return(ZeroResult, e)

\* ... answered with an error
FetchFail ==
    /\ pc = "fetch"
    /\ \E e \in FetchErrs :
         /\ trace' = Append(trace, [op |-> "GetStarredRepos", err |-> e])
         /\ FetchFailReturn(e)
    /\ UNCHANGED <<notExport, starred, store, dryRun, hasProgress, repos, existing, total,
                   added, skipped, i, runNo, prev>>

\* existing, err := e.pb.GetBookmarkURLsByTag(ctx, "github-repo"); total, added, skipped
LookupOk ==
    /\ pc = "lookup"
    /\ existing' = StoreURLsByTag(store, Sentinel)
    /\ trace' = Append(trace, [op |-> "GetBookmarkURLsByTag", tag |-> Sentinel,
                                err |-> NoErr])
    /\ total' = Len(repos)
    /\ added' = 0
    /\ skipped' = 0
    /\ i' = 0
    /\ pc' = "loop"
    /\ UNCHANGED <<notExport, starred, store, dryRun, hasProgress, repos, result, err,
                   runNo, prev>>

\* the lookup error returned with the number of fetched items as Total
LookupFailReturnTotal(e) == Return([Total |-> Len(repos), Added |-> 0, Skipped |-> 0], e)

\* if err != nil { return Result{}, err } after GetBookmarkURLsByTag
LookupFailReturn(e) == Return(ZeroResult, e)

\* ... answered with an error
LookupFail ==
    /\ pc = "lookup"
    /\ \E e \in LookupErrs :
         /\ trace' = Append(trace, [op |-> "GetBookmarkURLsByTag", tag |-> Sentinel,
                                    err |-> e])
         /\ LookupFailReturn(e)
    /\ UNCHANGED <<notExport, starred, store, dryRun, hasProgress, repos, existing, total,
                   added, skipped, i, runNo, prev>>

\* the event numbered with Go's 0-based index
ProgressEventZeroBased ==
    [op |-> "OnProgress", Current |-> i, Total |-> total,
     RepoName |-> CurRepo.FullName, Skipped |-> IsSkipped]

\* Progress{Current: i + 1, Total: total, RepoName: repo.FullName, Skipped: isSkipped}
ProgressEvent ==
    [op |-> "OnProgress", Current |-> i + 1, Total |-> total,
     RepoName |-> CurRepo.FullName, Skipped |-> IsSkipped]

\* the callback invoked for the skipped items only
ProgressOnlySkipped ==
    /\ pc = "loop"
    /\ i < Len(repos)
    /\ trace' = IF hasProgress /\ IsSkipped THEN Append(trace, ProgressEvent) ELSE trace
    /\ pc' = "decide"
    /\ UNCHANGED <<notExport, starred, store, dryRun, hasProgress, repos, existing, total,
                   added, skipped, i, result, err, runNo, prev>>

\* top of the loop body: map the item, test membership, report progress
Progress ==
    /\ pc = "loop"
    /\ i < Len(repos)
    /\ trace' = IF hasProgress THEN Append(trace, ProgressEvent) ELSE trace
    /\ pc' = "decide"
    /\ UNCHANGED <<notExport, starred, store, dryRun, hasProgress, repos, existing, total,
                   added, skipped, i, result, err, runNo, prev>>

\* if isSkipped { skipped++; continue }
\* the skipped item not counted
SkipUncounted ==
    /\ pc = "decide"
    /\ IsSkipped
    /\ skipped' = skipped
    /\ i' = i + 1
    /\ pc' = "loop"
    /\ UNCHANGED <<notExport, starred, store, dryRun, hasProgress, repos, existing, total,
                   added, result, err, trace, runNo, prev>>

Skip ==
    /\ pc = "decide"
    /\ IsSkipped
    /\ skipped' = skipped + 1
    /\ i' = i + 1
    /\ pc' = "loop"
    /\ UNCHANGED <<notExport, starred, store, dryRun, hasProgress, repos, existing, total,
                   added, result, err, trace, runNo, prev>>

\* a dry run that does not count the items it would add
DryAddUncounted ==
    /\ pc = "decide"
    /\ ~IsSkipped
    /\ ~Writes
    /\ added' = added
    /\ i' = i + 1
    /\ pc' = "loop"
    /\ UNCHANGED <<notExport, starred, store, dryRun, hasProgress, repos, existing, total,
                   skipped, result, err, trace, runNo, prev>>

\* DryRun: no AddBookmark; added++
DryAdd ==
    /\ pc = "decide"
    /\ ~IsSkipped
    /\ ~Writes
    /\ added' = added + 1
    /\ i' = i + 1
    /\ pc' = "loop"
    /\ UNCHANGED <<notExport, starred, store, dryRun, hasProgress, repos, existing, total,
                   skipped, result, err, trace, runNo, prev>>

\* a write that also records the URL in the existing-URL set
WriteOkRemembered ==
    /\ pc = "decide"
    /\ Writes
    /\ store' = PostsAdd(store, AddRequest(CurBookmark))
    /\ existing' = existing \cup {CurBookmark.URL}
    /\ trace' = Append(trace, [op |-> "AddBookmark", b |-> CurBookmark, err |-> NoErr])
    /\ added' = added + 1
    /\ i' = i + 1
    /\ pc' = "loop"
    /\ UNCHANGED <<notExport, starred, dryRun, hasProgress, repos, total,
                   skipped,
                   result, err, runNo, prev>>

\* e.pb.AddBookmark(ctx, bookmark) returns nil; added++
WriteOk ==
    /\ pc = "decide"
    /\ Writes
    /\ store' = PostsAdd(store, AddRequest(CurBookmark))
    /\ trace' = Append(trace, [op |-> "AddBookmark", b |-> CurBookmark, err |-> NoErr])
    /\ added' = added + 1
    /\ i' = i + 1
    /\ pc' = "loop"
    /\ UNCHANGED <<notExport, starred, dryRun, hasProgress, repos, existing, total,
                   skipped,
                   result, err, runNo, prev>>

\* the failed write counted as added
WriteFailReturnCounted(e) ==
    Return([Total |-> total, Added |-> added + 1, Skipped |-> skipped], e)

\* the failed write answered like the other error paths, with Result{}
WriteFailReturnZero(e) == Return(ZeroResult, e)

\* the failed write answered with the partial Result and a nil error
WriteFailReturnNil(e) == Return([Total |-> total, Added |-> added, Skipped |-> skipped], NoErr)

\* if err := e.pb.AddBookmark(...); err != nil { return Result{total, added, skipped}, err }
WriteFailReturn(e) == Return([Total |-> total, Added |-> added, Skipped |-> skipped], e)

\* a failed write tried again instead of ending the run
WriteFailRetry ==
    /\ pc = "decide"
    /\ Writes
    /\ \E e \in WriteErrs :
         trace' = Append(trace, [op |-> "AddBookmark", b |-> CurBookmark, err |-> e])
    /\ UNCHANGED <<notExport, starred, store, dryRun, hasProgress, repos, existing, total, added,
                   skipped, i, runNo, prev, pc, result, err>>

\* e.pb.AddBookmark(ctx, bookmark) returns an error (the store may or may not have
\* taken the bookmark): return Result{total, added, skipped}, err
WriteFail ==
    /\ pc = "decide"
    /\ Writes
    /\ \E e \in WriteErrs, applied \in BOOLEAN :
         /\ store' = IF applied THEN PostsAdd(store, AddRequest(CurBookmark)) ELSE store
         /\ trace' = Append(trace, [op |-> "AddBookmark", b |-> CurBookmark, err |-> e])
         /\ WriteFailReturn(e)
    /\ UNCHANGED <<notExport, starred, dryRun, hasProgress, repos, existing, total, added,
                   skipped, i, runNo, prev>>

\* the loop is over: return Result{total, added, skipped}, nil
Finish ==
    /\ pc = "loop"
    /\ i >= Len(repos)
    /\ Return([Total |-> total, Added |-> added, Skipped |-> skipped], NoErr)
    /\ UNCHANGED <<notExport, starred, store, dryRun, hasProgress, repos, existing, total,
                   added, skipped, i, trace, runNo, prev>>

\* the caller runs the Exporter again, on the same accounts
RunAgain ==
    /\ pc = "done"
    /\ runNo < MaxRuns
    /\ prev' = [run |-> runNo, dry |-> dryRun, ok |-> (err = NoErr)]
    /\ runNo' = runNo + 1
    /\ dryRun' \in BOOLEAN
    /\ hasProgress' \in BOOLEAN
    /\ pc' = "fetch" /\ repos' = <<>> /\ existing' = {} /\ total' = 0 /\ added' = 0
    /\ skipped' = 0 /\ i' = 0 /\ result' = NoResult /\ err' = NoErr /\ trace' = <<>>
    /\ UNCHANGED <<notExport, starred, store>>

Next ==
    \/ FetchOk \/ FetchFail \/ LookupOk \/ LookupFail \/ Progress
    \/ Skip \/ DryAdd \/ WriteOk \/ WriteFail \/ Finish \/ RunAgain

Spec == Init /\ [][Next]_vars

----------------------------------------------------------------------------
(* export: what is claimed of Exporter.Run *)

Last(s) == s[Len(s)]
Ops(kind) == SelectSeq(trace, LAMBDA e : e.op = kind)
\* the AddBookmark calls and the progress events of the run, in order
WriteCalls == Ops("AddBookmark")
Events     == Ops("OnProgress")
\* among the first k fetched items: those whose URL is not / is in the existing-URL set
CountNew(k) == Cardinality({j \in 1..k : repos[j].HTMLURL \notin existing})
CountOld(k) == Cardinality({j \in 1..k : repos[j].HTMLURL \in existing})
\* the bookmarks of the fetched items whose URL is not in the set, in fetch order
NewRepos     == SelectSeq(repos, LAMBDA r : r.HTMLURL \notin existing)
NewBookmarks == [k \in 1..Len(NewRepos) |-> RepoToBookmark(NewRepos[k])]
\* some write of the run failed
WriteFailed  == \E k \in 1..Len(trace) : trace[k].op = "AddBookmark" /\ trace[k].err # NoErr
FetchFailed  == Len(trace) >= 1 /\ trace[1].err # NoErr
LookupFailed == Len(trace) >= 2 /\ trace[2].op = "GetBookmarkURLsByTag" /\ trace[2].err # NoErr

\* C1 as claimed: whatever the outcome of a run, the returned Result has
\* total = added + skipped.
C1_TotalIsSum ==
    pc = "done" => result.Total = result.Added + result.Skipped

\* C1, amended: the returned Result has total = added + skipped in every run but
\* one aborted by a failed write; there added + skipped is the number of items
\* before the failing one, which is less than total.
C1_TotalIsSumUnlessWriteFailed ==
    pc = "done" =>
        IF WriteFailed
        THEN /\ result.Added + result.Skipped = i
             /\ result.Added + result.Skipped < result.Total
        ELSE result.Total = result.Added + result.Skipped

C1_Witness ==
    /\ pc = "done" /\ WriteFailed
    /\ result = [Total |-> 3, Added |-> 1, Skipped |-> 1]

\* C2: when the k-th write of a run fails, that failing call is the last thing the
\* run does: Run has returned its error with total = the number of fetched items,
\* added = k - 1 and skipped = the number of skipped items before the failing one;
\* the k - 1 earlier writes succeeded and no later item was reported or written.
C2_WriteFailureAborts ==
    WriteFailed =>
        LET k == Len(WriteCalls) IN
        /\ ~dryRun
        /\ pc = "done"
        /\ Last(trace).op = "AddBookmark"
        /\ Last(trace).err # NoErr
        /\ \A j \in 1..(k - 1) : WriteCalls[j].err = NoErr
        /\ err = Last(trace).err
        /\ Last(trace).b = RepoToBookmark(repos[i + 1])
        /\ result.Total = Len(repos)
        /\ result.Added = k - 1
        /\ result.Skipped = CountOld(i)
        /\ result.Added = CountNew(i)
        /\ \A j \in 1..Len(Events) : Events[j].Current <= i + 1

C2_Witness ==
    /\ WriteFailed /\ pc = "done"
    /\ Len(WriteCalls) = 2 /\ result.Skipped = 1 /\ i = 2 /\ Len(repos) = 3

\* C3: a dry run never calls AddBookmark, and counts in added every item so far
\* whose URL is not in the existing-URL set.
C3_DryRunWritesNothing ==
    dryRun =>
        /\ WriteCalls = <<>>
        /\ pc \in {"loop", "decide"} => added = CountNew(i)
        /\ (pc = "done" /\ err = NoErr) =>
               /\ result.Added = CountNew(Len(repos))
               /\ result.Skipped = CountOld(Len(repos))

C3_Witness ==
    /\ dryRun /\ pc = "done" /\ err = NoErr
    /\ result.Added = 2 /\ result.Skipped = 1

\* C4: a real run in which no write fails has called AddBookmark with exactly the
\* bookmarks of the items whose URL is not in the existing-URL set, in fetch order,
\* and returns total = items fetched, added = items not in the set, skipped = items
\* in the set; so for the two scenarios of the specification.
C4_WritesAreTheNewItems ==
    (pc = "done" /\ err = NoErr /\ ~dryRun) =>
        /\ [k \in 1..Len(WriteCalls) |-> WriteCalls[k].b] = NewBookmarks
        /\ result = [Total |-> Len(repos), Added |-> CountNew(Len(repos)),
                     Skipped |-> CountOld(Len(repos))]
        /\ (repos = <<RepoA, RepoB, RepoC>> /\ existing = {"U1", "U3"}) =>
               /\ Len(WriteCalls) = 1
               /\ WriteCalls[1].b = RepoToBookmark(RepoB)
               /\ result = [Total |-> 3, Added |-> 1, Skipped |-> 2]
        /\ (repos = <<RepoA, RepoB>> /\ existing = {}) =>
               /\ Len(WriteCalls) = 2
               /\ WriteCalls[1].b.URL = "U1"
               /\ WriteCalls[1].b.Tags = <<Sentinel, <<"g","o">> >>
               /\ WriteCalls[2].b.URL = "U2"
               /\ WriteCalls[2].b.Tags = <<Sentinel>>
               /\ result = [Total |-> 2, Added |-> 2, Skipped |-> 0]

C4_Witness ==
    /\ pc = "done" /\ err = NoErr /\ ~dryRun
    /\ repos = <<RepoA, RepoB, RepoC>> /\ existing = {"U1", "U3"}

\* C5 as claimed: a second run on the same store and the same starred list returns
\* added = 0 (stated here for a first run that returned no error; the claim
\* does not say which mode the first run was in).
C5_SecondRunAddsNothing ==
    (runNo >= 2 /\ prev.ok /\ pc = "done") => result.Added = 0

\* C5, amended: after a real (non-dry) run that returned no error, the next run on
\* the same store and the same starred list finds every item in the existing-URL
\* set, writes nothing, and returns added = 0.
C5_RunAfterCompleteRunAddsNothing ==
    (runNo >= 2 /\ prev.ok /\ ~prev.dry) =>
        /\ added = 0
        /\ WriteCalls = <<>>
        /\ pc \in {"loop", "decide"} =>
               \A j \in 1..Len(repos) : repos[j].HTMLURL \in existing
        /\ pc = "done" => result.Added = 0
        /\ (pc = "done" /\ err = NoErr) => result.Skipped = result.Total

C5_Witness ==
    /\ runNo = 2 /\ prev.ok /\ ~prev.dry
    /\ pc = "done" /\ err = NoErr
    /\ result.Skipped = 3 /\ "U2" \in existing

\* what the progress events of a run that reported every item look like
AllItemsReported ==
    /\ Len(Events) = Len(repos)
    /\ \A k \in 1..Len(Events) :
           Events[k] = [op |-> "OnProgress", Current |-> k, Total |-> result.Total,
                        RepoName |-> repos[k].FullName,
                        Skipped |-> (repos[k].HTMLURL \in existing)]

\* C6 as claimed: with a callback registered, a run has invoked it total times,
\* once for each of the items 1..total, with current = 1..total.
C6_OneEventPerItem ==
    (pc = "done" /\ hasProgress) =>
        /\ Len(Events) = result.Total
        /\ \A k \in 1..Len(Events) :
               Events[k] = [op |-> "OnProgress", Current |-> k, Total |-> result.Total,
                            RepoName |-> repos[k].FullName,
                            Skipped |-> (repos[k].HTMLURL \in existing)]

\* C6, amended: with a callback registered, a run that returns no error has
\* invoked it total times, once per fetched item in fetch order, with current
\* = 1..total, the same total, the item's full name and skipped = membership of
\* its URL in the existing-URL set. In any run the events so far are those of
\* the first items, numbered from 1 (a failed write ends them at the failing
\* item, a failed fetch or lookup leaves none).
C6_OneEventPerItemOnSuccess ==
    /\ (pc = "done" /\ hasProgress /\ err = NoErr) =>
           /\ Len(Events) = result.Total
           /\ AllItemsReported
    /\ hasProgress =>
           /\ Len(Events) <= Len(repos)
           /\ \A k \in 1..Len(Events) :
                  Events[k] = [op |-> "OnProgress", Current |-> k, Total |-> Len(repos),
                               RepoName |-> repos[k].FullName,
                               Skipped |-> (repos[k].HTMLURL \in existing)]
    /\ ~hasProgress => Events = <<>>

C6_Witness ==
    /\ pc = "done" /\ hasProgress /\ err = NoErr
    /\ Len(Events) = 3 /\ ~Events[1].Skipped /\ Events[2].Skipped

\* C7: when the fetch fails, Run has returned the zero Result and the fetcher's
\* own error, and the fetch is the only call of the run: no lookup, no write, no
\* progress event.
C7_FetchFailure ==
    FetchFailed =>
        /\ pc = "done"
        /\ result = ZeroResult
        /\ err = trace[1].err
        /\ err \in FetchErrs
        /\ Len(trace) = 1

C7_Witness ==
    /\ FetchFailed /\ pc = "done" /\ err = "github: decode"
    /\ Len(starred) = 3 /\ hasProgress /\ ~dryRun

\* C8: when the lookup of the existing URLs fails, Run has returned the zero
\* Result (total 0 whatever was fetched) and the lookup's own error; the fetch and
\* the lookup are the only calls of the run: no write, no progress event.
C8_LookupFailure ==
    LookupFailed =>
        /\ pc = "done"
        /\ result = ZeroResult
        /\ err = trace[2].err
        /\ err \in LookupErrs
        /\ Len(trace) = 2

C8_Witness ==
    /\ LookupFailed /\ pc = "done"
    /\ Len(repos) = 3 /\ hasProgress /\ ~dryRun

----------------------------------------------------------------------------
(* pinboard: Client.AddBookmark *)

CtxErrs == {"context canceled", "context deadline exceeded"}

\* what the server may answer to posts/add (transport = FALSE: no answer at all)
Responses ==
    {NoResponse}
    \cup [transport : {TRUE}, readOk : BOOLEAN, status : {200, 201, 500},
          body : {"done", "something went wrong", "not json"}]

\* a gate that lets a call through one second early
NeedsWaitEarly(last, t) == last # NoTime /\ t - last < MinDelay - 1

\* if !c.lastCall.IsZero() { elapsed := time.Since(c.lastCall); if elapsed < c.minDelay
NeedsWait(last, t) == last # NoTime /\ t - last < MinDelay

\* a select without the ctx.Done() case: nothing but the timer wakes it
WakeOnCancelIgnored(w) == w

\* the case a parked select is woken with when ctx.Done() is closed: the first
\* channel to become ready decides
WakeOnCancel(w) == IF w = "none" THEN "ctx" ELSE w

\* the case a parked select is woken with when the clock reaches t
WakeOnTick(w, t) == IF w = "none" /\ deadline # NoTime /\ t >= deadline THEN "timer" ELSE w

InitClient ==
    /\ starred = <<>> /\ store = {} /\ dryRun = FALSE /\ hasProgress = FALSE
    /\ RunLocalsInit /\ runNo = 1 /\ prev = NoRun
    /\ ClientIdle
    /\ TagsIdle
    /\ GithubIdle
    /\ LookupIdle
    /\ HeaderIdle
    /\ MainIdle

\* time passes; a timer that comes due wakes the call parked on it
Tick ==
    /\ now < MaxTime
    /\ now' = now + 1
    /\ wake' = IF cpc = "parked" THEN WakeOnTick(wake, now + 1) ELSE wake
    /\ UNCHANGED <<notClient, lastCall, cpc, elapsed, deadline, ctxErr, waitCancel,
                   ret, passes,
                   requests, reqAtCall, lastAtCall, nCalls, response>>

\* the caller's context is cancelled or times out while the call is in progress
Cancel ==
    /\ cpc \notin {"idle", "returned"}
    /\ ctxErr = NoErr
    /\ ctxErr' \in CtxErrs
    /\ wake' = IF cpc = "parked" THEN WakeOnCancel(wake) ELSE wake
    /\ waitCancel' = (cpc = "parked" /\ wake = "none")
    /\ UNCHANGED <<notClient, now, lastCall, cpc, elapsed, deadline, ret, passes, requests,
                   reqAtCall, lastAtCall, nCalls, response>>

\* AddBookmark is called (the context may be done already): the gate's test
Call ==
    /\ cpc \in {"idle", "returned"}
    /\ nCalls < MaxCalls
    /\ nCalls' = nCalls + 1
    /\ ctxErr' \in {NoErr} \cup CtxErrs
    /\ reqAtCall' = requests
    /\ lastAtCall' = lastCall
    /\ waitCancel' = FALSE
    /\ wake' = "none"
    /\ deadline' = NoTime
    /\ ret' = NotReturned
    /\ response' = NoResponse
    /\ IF NeedsWait(lastCall, now)
       THEN elapsed' = now - lastCall /\ cpc' = "timer"
       ELSE elapsed' = 0 /\ cpc' = "pass"
    /\ UNCHANGED <<notClient, now, lastCall, passes, requests>>

\* timer := time.NewTimer(c.minDelay - elapsed)
NewTimer ==
    /\ cpc = "timer"
    /\ deadline' = now + (MinDelay - elapsed)
    /\ cpc' = "select"
    /\ UNCHANGED <<notClient, now, lastCall, elapsed, wake, ctxErr, waitCancel, ret,
                   passes,
                   requests, reqAtCall, lastAtCall, nCalls, response>>

\* select { case <-ctx.Done(): ... case <-timer.C: }: a ready case is taken (any
\* one of them when both are ready); with none ready the call parks
Select ==
    /\ cpc = "select"
    /\ \/ /\ ctxErr # NoErr
          /\ wake' = "ctx"
       \/ /\ now >= deadline
          /\ wake' = "timer"
       \/ /\ ctxErr = NoErr
          /\ now < deadline
          /\ wake' = "none"
    /\ cpc' = "parked"
    /\ UNCHANGED <<notClient, now, lastCall, elapsed, deadline, ctxErr, waitCancel,
                   ret, passes,
                   requests, reqAtCall, lastAtCall, nCalls, response>>

\* a cancelled wait that stamps the client as if it had got past the gate
ResumeCtxStamped ==
    /\ cpc = "parked"
    /\ wake = "ctx"
    /\ ret' = Bare(ctxErr)
    /\ lastCall' = now
    /\ cpc' = "returned"
    /\ UNCHANGED <<notClient, now, elapsed, deadline, wake, ctxErr,
                   waitCancel, passes,
                   requests, reqAtCall, lastAtCall, nCalls, response>>

\* case <-ctx.Done(): timer.Stop(); return ctx.Err()
ResumeCtx ==
    /\ cpc = "parked"
    /\ wake = "ctx"
    /\ ret' = Bare(ctxErr)
    /\ cpc' = "returned"
    /\ UNCHANGED <<notClient, now, lastCall, elapsed, deadline, wake, ctxErr,
                   waitCancel, passes,
                   requests, reqAtCall, lastAtCall, nCalls, response>>

\* case <-timer.C:
ResumeTimer ==
    /\ cpc = "parked"
    /\ wake = "timer"
    /\ cpc' = "pass"
    /\ UNCHANGED <<notClient, now, lastCall, elapsed, deadline, wake, ctxErr,
                   waitCancel, ret,
                   passes, requests, reqAtCall, lastAtCall, nCalls, response>>

\* c.lastCall = time.Now()
PassGate ==
    /\ cpc = "pass"
    /\ lastCall' = now
    /\ passes' = Append(passes, now)
    /\ cpc' = "send"
    /\ UNCHANGED <<notClient, now, elapsed, deadline, wake, ctxErr, waitCancel, ret,
                   requests,
                   reqAtCall, lastAtCall, nCalls, response>>

\* what AddBookmark returns for the server's answer
AddBookmarkResultAny2xx(r) ==
    IF ~r.transport THEN Wrap("failed to send request", "transport")
    ELSE IF ~r.readOk THEN Wrap("failed to read response", "read")
    ELSE IF r.status \notin 200..299 THEN Wrap("API returned status " \o ToString(r.status), r.body)
    ELSE IF r.body = "not json" THEN Wrap("failed to parse response", "json")
    ELSE IF r.body # "done" THEN Wrap("API error: result_code was", r.body)
    ELSE Bare(NoErr)

AddBookmarkResult(r) ==
    IF ~r.transport THEN Wrap("failed to send request", "transport")
    ELSE IF ~r.readOk THEN Wrap("failed to read response", "read")
    ELSE IF r.status # 200 THEN Wrap("API returned status " \o ToString(r.status), r.body)
    ELSE IF r.body = "not json" THEN Wrap("failed to parse response", "json")
    ELSE IF r.body # "done" THEN Wrap("API error: result_code was", r.body)
    ELSE Bare(NoErr)

\* the request is built and sent, the answer read and judged. A context that is
\* done makes httpClient.Do fail before anything is sent.
Send ==
    /\ cpc = "send"
    /\ \/ /\ ctxErr # NoErr
          /\ ret' = Wrap("failed to send request", ctxErr)
          /\ requests' = requests
          /\ response' = NoResponse
       \/ /\ ctxErr = NoErr
          /\ requests' = requests + 1
          /\ \E r \in Responses : response' = r /\ ret' = AddBookmarkResult(r)
    /\ cpc' = "returned"
    /\ UNCHANGED <<notClient, now, lastCall, elapsed, deadline, wake, ctxErr,
                   waitCancel, passes,
                   reqAtCall, lastAtCall, nCalls>>

NextClient ==
    \/ Tick \/ Cancel \/ Call \/ NewTimer \/ Select \/ ResumeCtx \/ ResumeTimer
    \/ PassGate \/ Send

SpecClient == InitClient /\ [][NextClient]_vars

----------------------------------------------------------------------------
(* pinboard: what is claimed of Client.AddBookmark *)

\* C9: any two successive passages of the gate of one Client are at least MinDelay
\* apart, and a call on a Client that has made no call yet does not wait.
C9_MinimumSpacing ==
    /\ \A k \in 1..(Len(passes) - 1) : passes[k + 1] - passes[k] >= MinDelay
    /\ (lastAtCall = NoTime /\ cpc # "idle") =>
           /\ cpc \in {"pass", "send", "returned"}
           /\ deadline = NoTime

C9_Witness ==
    /\ Len(passes) = 3
    /\ passes[2] - passes[1] = MinDelay
    /\ passes[3] - passes[2] > MinDelay

\* C10: a call whose context is cancelled while it is parked in the rate-limit wait
\* returns the context's error itself, does not get past the gate (lastCall is as
\* it was) and sends no request.
C10_CancelDuringWait ==
    waitCancel =>
        /\ cpc \in {"parked", "returned"}
        /\ lastCall = lastAtCall
        /\ requests = reqAtCall
        /\ cpc = "returned" =>
               /\ ret = Bare(ctxErr)
               /\ ctxErr \in CtxErrs

C10_Witness ==
    /\ waitCancel /\ cpc = "returned"
    /\ now < deadline
    /\ ret = Bare("context canceled")

----------------------------------------------------------------------------
(* export: NormaliseTags and RepoToBookmark as functions *)

\* the characters topics are made of: an upper-case letter, a lower-case one, a space
TopicChars == {"A", "b", " "}
Topics     == SeqsUpTo(TopicChars, MaxTopicLen)

\* the Exporter with no run in progress
ExportIdle ==
    /\ starred = <<>> /\ store = {} /\ dryRun = FALSE /\ hasProgress = FALSE
    /\ RunLocalsInit /\ runNo = 1 /\ prev = NoRun

InitTags ==
    /\ repoIn \in [FullName : {"a/one"}, HTMLURL : {"U1"}, Description : {"", "text"},
                   Topics : SeqsUpTo(Topics, MaxTopics)]
    /\ tagsOut = <<>>
    /\ bookmarkOut = RepoToBookmark(RepoB)
    /\ tpc = "in"
    /\ ExportIdle
    /\ ClientIdle
    /\ GithubIdle
    /\ LookupIdle
    /\ HeaderIdle
    /\ MainIdle

\* NormaliseTags(repo.Topics) is called
CallNormaliseTags ==
    /\ tpc = "in"
    /\ tagsOut' = NormaliseTags(repoIn.Topics)
    /\ tpc' = "tags"
    /\ UNCHANGED <<notTags, repoIn, bookmarkOut>>

\* RepoToBookmark(repo) is called
CallRepoToBookmark ==
    /\ tpc = "in"
    /\ bookmarkOut' = RepoToBookmark(repoIn)
    /\ tpc' = "bookmark"
    /\ UNCHANGED <<notTags, repoIn, tagsOut>>

NextTags == CallNormaliseTags \/ CallRepoToBookmark

SpecTags == InitTags /\ [][NextTags]_vars

----------------------------------------------------------------------------
(* export: what is claimed of NormaliseTags and RepoToBookmark *)

\* a topic character as a tag must show it: lower-cased, a space turned into a hyphen
TagChar(c) == CASE c = "A" -> "a" [] c = " " -> "-" [] OTHER -> c
TagOf(topic) == [j \in 1..Len(topic) |-> TagChar(topic[j])]
IsUpperCase(c) == \E k \in 1..Len(Upper) : Upper[k] = c

\* C13: NormaliseTags(T) is as long as T; its k-th element is the k-th topic
\* lower-cased with every space (leading, trailing, repeated) turned into a hyphen,
\* so no element holds an upper-case letter or a space; order is kept; an empty T
\* gives an empty sequence.
C13_NormaliseTags ==
    tpc = "tags" =>
        /\ Len(tagsOut) = Len(repoIn.Topics)
        /\ \A k \in 1..Len(tagsOut) :
               /\ tagsOut[k] = TagOf(repoIn.Topics[k])
               /\ \A j \in 1..Len(tagsOut[k]) :
                      ~IsUpperCase(tagsOut[k][j]) /\ tagsOut[k][j] # " "
        /\ repoIn.Topics = <<>> => tagsOut = <<>>

C13_Witness ==
    /\ tpc = "tags"
    /\ repoIn.Topics = << <<" ", "A">>, <<" ", " ">> >>
    /\ tagsOut = << <<"-", "a">>, <<"-", "-">> >>

\* C14: RepoToBookmark(item) has tags = "github-repo" followed by
\* NormaliseTags(item.topics) (1 + number of topics of them, also with no topics),
\* url = item url, title = item full name, description = item description (empty
\* stays empty), private = true, to_read = false.
C14_RepoToBookmark ==
    tpc = "bookmark" =>
        /\ Len(bookmarkOut.Tags) = 1 + Len(repoIn.Topics)
        /\ bookmarkOut.Tags[1] = Sentinel
        /\ \A k \in 1..Len(repoIn.Topics) : bookmarkOut.Tags[k + 1] = TagOf(repoIn.Topics[k])
        /\ bookmarkOut.URL = repoIn.HTMLURL
        /\ bookmarkOut.Title = repoIn.FullName
        /\ bookmarkOut.Description = repoIn.Description
        /\ bookmarkOut.Private = TRUE
        /\ bookmarkOut.ToRead = FALSE
        /\ DOMAIN bookmarkOut = {"URL", "Title", "Description", "Tags", "Private", "ToRead"}

C14_Witness ==
    /\ tpc = "bookmark"
    /\ repoIn.Topics = <<>> /\ repoIn.Description = ""
    /\ bookmarkOut.Tags = <<Sentinel>> /\ bookmarkOut.Description = ""

----------------------------------------------------------------------------
(* github: strings.Split, strings.Trim, strings.TrimSpace and extractNextURL.
   A header is a sequence of tokens: the separators and spaces one by one,
   a URL or a rel parameter as one token. *)

RelNext == "rel=\"next\""
RelLast == "rel=\"last\""
RelPrev == "rel=\"prev\""

RECURSIVE TrimLeft(_, _)
TrimLeft(s, cutset) ==
    IF s # <<>> /\ Head(s) \in cutset THEN TrimLeft(Tail(s), cutset) ELSE s

RECURSIVE TrimRight(_, _)
TrimRight(s, cutset) ==
    IF s # <<>> /\ s[Len(s)] \in cutset THEN TrimRight(SubSeq(s, 1, Len(s) - 1), cutset) ELSE s

Trim(s, cutset) == TrimRight(TrimLeft(s, cutset), cutset)
TrimSpace(s)    == Trim(s, {" "})

\* a loop that takes an entry of two or more parts
RECURSIVE FirstNextLinkAnyParams(_)
FirstNextLinkAnyParams(links) ==
    IF links = <<>> THEN <<>>
    ELSE LET parts == Split(TrimSpace(Head(links)), ";")
         IN  IF Len(parts) < 2 THEN FirstNextLinkAnyParams(Tail(links))
             ELSE LET u   == Trim(TrimSpace(parts[1]), {"<", ">"})
                      rel == TrimSpace(parts[2])
                  IN  IF rel = <<RelNext>> THEN u ELSE FirstNextLinkAnyParams(Tail(links))

\* the loop of extractNextURL over the comma-separated links
RECURSIVE FirstNextLink(_)
FirstNextLink(links) ==
    IF links = <<>> THEN <<>>
    ELSE LET parts == Split(TrimSpace(Head(links)), ";")
         IN  IF Len(parts) # 2 THEN FirstNextLink(Tail(links))
             ELSE LET u   == Trim(TrimSpace(parts[1]), {"<", ">"})
                      rel == TrimSpace(parts[2])
                  IN  IF rel = <<RelNext>> THEN u ELSE FirstNextLink(Tail(links))

extractNextURL(linkHeader) ==
    IF linkHeader = <<>> THEN <<>>
    ELSE FirstNextLink(Split(linkHeader, ","))

----------------------------------------------------------------------------
(* github: the server *)

\* c.baseURL + "/user/starred?per_page=100"
FirstURL == <<"p1">>

\* a URL that http.NewRequestWithContext rejects
BadURL == <<"%zz">>

\* Link headers
LinkEntry(u, rel) == <<"<">> \o u \o <<">", ";", " ", rel>>
LinkNextLast(u)   == LinkEntry(u, RelNext) \o <<",", " ">> \o LinkEntry(<<"p9">>, RelLast)
LinkPrevNext(u)   == LinkEntry(<<"p1">>, RelPrev) \o <<",", " ">> \o LinkEntry(u, RelNext)
LinkLastOnly      == LinkEntry(<<"p9">>, RelLast)
LinkExtraParam(u) == LinkEntry(u, RelNext) \o <<";", " ", "x">>
LinkHeaders ==
    {<<>>, LinkNextLast(<<"p1">>), LinkNextLast(<<"p2">>), LinkPrevNext(<<"p2">>),
     LinkLastOnly, LinkExtraParam(<<"p2">>), LinkNextLast(BadURL)}

\* time.Parse(time.RFC3339, s): the time of a well-formed stamp, an error otherwise
ParseRFC3339(s) ==
    CASE s = "2024-01-15T10:30:00Z"      -> [ok |-> TRUE,  unix |-> 1705314600]
      [] s = "2024-01-15T11:30:00+01:00" -> [ok |-> TRUE,  unix |-> 1705314600]
      [] OTHER                            -> [ok |-> FALSE, unix |-> 0]

\* starredRepoResponse values as decoded from a page
ItemX   == [StarredAt |-> "2024-01-15T10:30:00Z",
            Repo |-> [FullName |-> "a/one", HTMLURL |-> "U1", Description |-> "The Go language",
                      Topics |-> SliceOf(<< <<"G","o">> >>)]]
ItemY   == [StarredAt |-> "2024-01-15T11:30:00+01:00",
            Repo |-> [FullName |-> "b/two", HTMLURL |-> "U2", Description |-> "",
                      Topics |-> NilSlice]]
ItemBad == [StarredAt |-> "2024-01-15",
            Repo |-> [FullName |-> "c/three", HTMLURL |-> "U3", Description |-> "",
                      Topics |-> EmptySlice]]

\* response bodies: one that is not JSON, and arrays of items
Bodies ==
    {[json |-> FALSE, items |-> <<>>]} \cup
    [json : {TRUE}, items : {<<>>, <<ItemX>>, <<ItemX, ItemY>>, <<ItemX, ItemBad>>, <<ItemBad, ItemX>>}]

TransportFailure ==
    [transport |-> FALSE, status |-> 0, body |-> [json |-> FALSE, items |-> <<>>], link |-> <<>>]

GhResponses ==
    {TransportFailure} \cup
    [transport : {TRUE}, status : {200, 204, 401}, body : Bodies, link : LinkHeaders]

----------------------------------------------------------------------------
(* github: Client.GetStarredRepos *)

\* the StarredRepo built from one decoded item
RepoOfItem(apiRepo) ==
    [FullName    |-> apiRepo.Repo.FullName,
     HTMLURL     |-> apiRepo.Repo.HTMLURL,
     Description |-> apiRepo.Repo.Description,
     Topics      |-> IF apiRepo.Repo.Topics.isNil THEN EmptySlice ELSE apiRepo.Repo.Topics,
     StarredAt   |-> ParseRFC3339(apiRepo.StarredAt).unix]

\* append(slice, repo)
AppendSlice(slice, repo) == SliceOf(Append(slice.elems, repo))

\* the loop over pageRepos: the slice after it, and whether every starred_at parsed;
\* the loop stops at the first one that does not
RECURSIVE ConvertPage(_, _)
ConvertPage(all, pageRepos) ==
    IF pageRepos = <<>> THEN [ok |-> TRUE, all |-> all]
    ELSE IF ~ParseRFC3339(Head(pageRepos).StarredAt).ok THEN [ok |-> FALSE, all |-> all]
    ELSE ConvertPage(AppendSlice(all, RepoOfItem(Head(pageRepos))), Tail(pageRepos))

\* what a successful call returns
ReturnedReposNilKept(all) == all

ReturnedRepos(all) == IF all.isNil THEN EmptySlice ELSE all

InitGithub ==
    /\ url = FirstURL
    /\ allRepos = NilSlice
    /\ served = <<>>
    /\ gpc = "loop"
    /\ gret = [repos |-> NilSlice, err |-> NotReturned]
    /\ ExportIdle
    /\ ClientIdle
    /\ TagsIdle
    /\ LookupIdle
    /\ HeaderIdle
    /\ MainIdle

\* httpClient.Do(req) is called and the server answers resp
Do(resp) ==
    /\ gpc = "loop"
    /\ url # <<>>
    /\ url # BadURL
    /\ Len(served) < MaxRequests
    /\ served' = Append(served, [url |-> url, resp |-> resp])

\* return nil, err
GhReturnErrPartial(e) ==
    /\ gret' = [repos |-> allRepos', err |-> e]
    /\ gpc' = "returned"
    /\ UNCHANGED url

GhReturnErr(e) ==
    /\ gret' = [repos |-> NilSlice, err |-> e]
    /\ gpc' = "returned"
    /\ UNCHANGED url

\* http.NewRequestWithContext fails: no request is made
GhNewRequestFail ==
    /\ gpc = "loop"
    /\ url = BadURL
    /\ GhReturnErr(Wrap("failed to create request", "parse"))
    /\ UNCHANGED <<notGithub, allRepos, served>>

GhDoFail ==
    /\ \E resp \in GhResponses :
           /\ ~resp.transport
           /\ Do(resp)
    /\ allRepos' = allRepos
    /\ GhReturnErr(Wrap("request failed", "transport"))
    /\ UNCHANGED notGithub

GhStatusFail ==
    /\ \E resp \in GhResponses :
           /\ resp.transport /\ resp.status # 200
           /\ Do(resp)
           /\ allRepos' = allRepos
           /\ GhReturnErr(Wrap("GitHub API request failed with status", ToString(resp.status)))
    /\ UNCHANGED notGithub

GhDecodeFail ==
    /\ \E resp \in GhResponses :
           /\ resp.transport /\ resp.status = 200 /\ ~resp.body.json
           /\ Do(resp)
    /\ allRepos' = allRepos
    /\ GhReturnErr(Wrap("failed to decode response", "json"))
    /\ UNCHANGED notGithub

GhTimeFail ==
    /\ \E resp \in GhResponses :
           /\ resp.transport /\ resp.status = 200 /\ resp.body.json
           /\ ~ConvertPage(allRepos, resp.body.items).ok
           /\ Do(resp)
           /\ allRepos' = ConvertPage(allRepos, resp.body.items).all
    /\ GhReturnErr(Wrap("failed to parse starred_at time", "parse"))
    /\ UNCHANGED notGithub

\* a loop that does not request a URL it has requested before
GhPageOkVisitedGuard ==
    /\ \E resp \in GhResponses :
           /\ resp.transport /\ resp.status = 200 /\ resp.body.json
           /\ ConvertPage(allRepos, resp.body.items).ok
           /\ Do(resp)
           /\ allRepos' = ConvertPage(allRepos, resp.body.items).all
           /\ url' = IF \E k \in 1..Len(served') : served'[k].url = extractNextURL(resp.link)
                     THEN <<>>
                     ELSE extractNextURL(resp.link)
    /\ UNCHANGED <<notGithub, gpc, gret>>

\* a page is read to its end; url becomes the next page's, or ""
GhPageOk ==
    /\ \E resp \in GhResponses :
           /\ resp.transport /\ resp.status = 200 /\ resp.body.json
           /\ ConvertPage(allRepos, resp.body.items).ok
           /\ Do(resp)
           /\ allRepos' = ConvertPage(allRepos, resp.body.items).all
           /\ url' = extractNextURL(resp.link)
    /\ UNCHANGED <<notGithub, gpc, gret>>

\* the loop ends: return allRepos, nil
GhReturn ==
    /\ gpc = "loop"
    /\ url = <<>>
    /\ gret' = [repos |-> ReturnedRepos(allRepos), err |-> Bare(NoErr)]
    /\ gpc' = "returned"
    /\ UNCHANGED <<notGithub, url, allRepos, served>>

NextGithub ==
    \/ GhNewRequestFail
    \/ GhDoFail
    \/ GhStatusFail
    \/ GhDecodeFail
    \/ GhTimeFail
    \/ GhPageOk
    \/ GhReturn

SpecGithub == InitGithub /\ [][NextGithub]_vars

----------------------------------------------------------------------------
(* github: what is claimed of GetStarredRepos *)

\* the items of the pages served up to the k-th, page after page, each page in its order
RECURSIVE ItemsUpTo(_)
ItemsUpTo(k) ==
    IF k = 0 THEN <<>> ELSE ItemsUpTo(k - 1) \o served[k].resp.body.items

GhSucceeded == gpc = "returned" /\ gret.err = Bare(NoErr)

\* C11: on success GetStarredRepos returns the items of the pages it was served, the
\* first page first and each page in its own order, the pages being the first page and
\* then each page named by the rel="next" link of the one before, up to a page with no
\* such link; the returned sequence is never nil, also when it is empty.
C11_AllPagesInOrder ==
    GhSucceeded =>
        /\ ~gret.repos.isNil
        /\ Len(gret.repos.elems) = Len(ItemsUpTo(Len(served)))
        /\ \A k \in 1..Len(gret.repos.elems) :
               gret.repos.elems[k] = RepoOfItem(ItemsUpTo(Len(served))[k])
        /\ served # <<>> /\ served[1].url = FirstURL
        /\ \A k \in 2..Len(served) : served[k].url = extractNextURL(served[k - 1].resp.link)
        /\ extractNextURL(served[Len(served)].resp.link) = <<>>

C11_Witness ==
    /\ GhSucceeded
    /\ Len(served) = 2
    /\ served[1].resp.body.items = <<ItemX, ItemY>> /\ served[1].resp.link = LinkNextLast(<<"p2">>)
    /\ served[2].url = <<"p2">> /\ served[2].resp.body.items = <<ItemX>>
    /\ Len(gret.repos.elems) = 3

C11_WitnessEmpty ==
    /\ GhSucceeded
    /\ gret.repos = EmptySlice

\* a page that makes the call fail, as the specification lists them
IsFailingPage(resp) ==
    /\ resp.transport
    /\ \/ resp.status \notin 200..299
       \/ ~resp.body.json
       \/ \E j \in 1..Len(resp.body.items) : ~ParseRFC3339(resp.body.items[j].StarredAt).ok

\* C12: once a page answered with a non-2xx status, did not decode, or held an item
\* with a malformed starred_at, the call has returned an error and nil instead of items,
\* whatever earlier pages held, and that page is the last one requested.
C12_FailFast ==
    \A k \in 1..Len(served) :
        IsFailingPage(served[k].resp) =>
            /\ gpc = "returned"
            /\ gret.err # Bare(NoErr)
            /\ gret.repos = NilSlice
            /\ k = Len(served)

C12_Witness ==
    /\ gpc = "returned"
    /\ Len(served) = 2
    /\ served[1].resp.body.items = <<ItemX, ItemY>>
    /\ served[2].resp.status = 200 /\ served[2].resp.body.items = <<ItemX, ItemBad>>
    /\ Len(allRepos.elems) = 3
    /\ gret.repos = NilSlice /\ gret.err # Bare(NoErr)

----------------------------------------------------------------------------
(* pinboard: what is claimed of AddBookmark's judgement of the answer *)

\* the call has returned after the server answered
Answered == cpc = "returned" /\ response.transport

\* the body is JSON with a result_code
Parses(r) == r.readOk /\ r.body # "not json"

SuccessIffDone ==
    cpc = "returned" =>
        (ret = Bare(NoErr) <=> (response.transport /\ response.status = 200 /\ Parses(response) /\ response.body = "done"))

ResultCodeCarried ==
    Answered /\ response.status = 200 /\ Parses(response) /\ response.body # "done" =>
        ret = Wrap("API error: result_code was", response.body)

NamesStatus(e, status) == e.msg = "API returned status " \o ToString(status)

\* C15 as stated: success exactly when the status is 200, the body parses and its
\* result_code is "done"; every non-200 answer gives an error naming the status; a
\* 200 answer with another result_code gives an error carrying that result_code.
C15_AnswerJudged ==
    /\ SuccessIffDone
    /\ ResultCodeCarried
    /\ Answered /\ response.status # 200 => NamesStatus(ret, response.status)

\* C15 amended: a non-200 answer gives an error naming the status when its body could
\* be read; when reading the body fails the error is the read failure, whatever the status.
C15_AnswerJudgedBodyRead ==
    /\ SuccessIffDone
    /\ ResultCodeCarried
    /\ Answered /\ response.status # 200 /\ response.readOk => NamesStatus(ret, response.status)
    /\ Answered /\ ~response.readOk => ret = Wrap("failed to read response", "read")

C15_Witness ==
    /\ Answered /\ nCalls = 2
    /\ response.status = 500 /\ response.readOk
    /\ ret = Wrap("API returned status 500", response.body)

----------------------------------------------------------------------------
(* pinboard: Client.GetBookmarkURLsByTag *)

\* urls[key] = true
MapSet(urls, key) ==
    [isNil |-> FALSE,
     m |-> [k \in DOMAIN urls.m \cup {key} |-> IF k = key THEN TRUE ELSE urls.m[k]]]

\* for _, bookmark := range bookmarks { urls[bookmark.Href] = true }
RECURSIVE BuildURLSet(_, _)
BuildURLSet(urls, hrefs) ==
    IF hrefs = <<>> THEN urls
    ELSE BuildURLSet(MapSet(urls, Head(hrefs)), Tail(hrefs))

\* what the server may answer to posts/all: the body is not JSON, or an array of
\* bookmarks, given by their hrefs
LookupResponses ==
    {[transport |-> FALSE, status |-> 0, readOk |-> FALSE, body |-> [json |-> FALSE, hrefs |-> <<>>]]}
    \cup [transport : {TRUE}, status : {200, 201, 500}, readOk : BOOLEAN,
          body : {[json |-> FALSE, hrefs |-> <<>>]}
                 \cup [json : {TRUE}, hrefs : SeqsUpTo({"U1", "U2", "U3"}, MaxHrefs)]]

\* the (urls, err) GetBookmarkURLsByTag returns for the server's answer
GetBookmarkURLsByTagNoStatusCheck(r) ==
    IF ~r.transport THEN [urls |-> NilMap, err |-> Wrap("failed to send request", "transport")]
    ELSE IF ~r.readOk THEN [urls |-> NilMap, err |-> Wrap("failed to read response", "read")]
    ELSE IF ~r.body.json THEN [urls |-> NilMap, err |-> Wrap("failed to parse response", "json")]
    ELSE [urls |-> BuildURLSet(MakeMap, r.body.hrefs), err |-> Bare(NoErr)]

GetBookmarkURLsByTag(r) ==
    IF ~r.transport THEN [urls |-> NilMap, err |-> Wrap("failed to send request", "transport")]
    ELSE IF r.status # 200
         THEN [urls |-> NilMap,
               err |-> Wrap("API returned status " \o ToString(r.status),
                            IF r.readOk THEN ToString(r.body) ELSE "")]
    ELSE IF ~r.readOk THEN [urls |-> NilMap, err |-> Wrap("failed to read response", "read")]
    ELSE IF ~r.body.json THEN [urls |-> NilMap, err |-> Wrap("failed to parse response", "json")]
    ELSE [urls |-> BuildURLSet(MakeMap, r.body.hrefs), err |-> Bare(NoErr)]

InitLookup ==
    /\ lookupResp \in LookupResponses
    /\ lookupRet = [urls |-> NilMap, err |-> NotReturned]
    /\ lpc = "send"
    /\ ExportIdle
    /\ ClientIdle
    /\ TagsIdle
    /\ GithubIdle
    /\ MainIdle
    /\ HeaderIdle

CallGetBookmarkURLsByTag ==
    /\ lpc = "send"
    /\ lookupRet' = GetBookmarkURLsByTag(lookupResp)
    /\ lpc' = "returned"
    /\ UNCHANGED <<notLookup, lookupResp>>

NextLookup == CallGetBookmarkURLsByTag

SpecLookup == InitLookup /\ [][NextLookup]_vars

----------------------------------------------------------------------------
(* pinboard: what is claimed of GetBookmarkURLsByTag *)

LookupAnswerOk ==
    /\ lookupResp.transport /\ lookupResp.status = 200
    /\ lookupResp.readOk /\ lookupResp.body.json

\* C16: from a 200 answer that parses, GetBookmarkURLsByTag returns no error and the
\* set whose members are exactly the hrefs of the answer, each once however often it
\* occurs; from an answer with no bookmarks it returns the empty set and no error;
\* from a non-200 answer it returns an error and no set (nil).
C16_LookupIsHrefSet ==
    lpc = "returned" =>
        /\ LookupAnswerOk =>
               /\ lookupRet.err = Bare(NoErr)
               /\ ~lookupRet.urls.isNil
               /\ DOMAIN lookupRet.urls.m = Range(lookupResp.body.hrefs)
               /\ \A k \in DOMAIN lookupRet.urls.m : lookupRet.urls.m[k] = TRUE
        /\ LookupAnswerOk /\ lookupResp.body.hrefs = <<>> =>
               lookupRet = [urls |-> MakeMap, err |-> Bare(NoErr)]
        /\ lookupResp.transport /\ lookupResp.status # 200 =>
               lookupRet.err # Bare(NoErr) /\ lookupRet.urls = NilMap

C16_Witness ==
    /\ lpc = "returned"
    /\ LookupAnswerOk
    /\ lookupResp.body.hrefs = <<"U1", "U2", "U1">>
    /\ DOMAIN lookupRet.urls.m = {"U1", "U2"}

----------------------------------------------------------------------------
(* export and pinboard: what is claimed of the writes and the store *)

OnePerURL == \A x \in store : \A y \in store : x.URL = y.URL => x = y

\* C17: every write AddBookmark issues carries replace=yes; a write the store has
\* taken leaves the submitted bookmark as the only one of its URL, also when the
\* store already held one of that URL; so in every state of every sequence of runs
\* the store holds at most one bookmark per URL.
C17_CreateOrReplace ==
    /\ \A k \in 1..Len(WriteCalls) : AddRequest(WriteCalls[k].b).replace = "yes"
    /\ OnePerURL
    /\ trace # <<>> /\ Last(trace).op = "AddBookmark" /\ Last(trace).err = NoErr =>
           \A x \in store : x.URL = Last(trace).b.URL => x = Last(trace).b

\* a run has written twice for one URL (the item is starred twice), which the store
\* held as a bookmark made by hand: the store still holds its three bookmarks
C17_Witness ==
    /\ runNo = 2 /\ ~dryRun
    /\ trace # <<>> /\ Last(trace).op = "AddBookmark" /\ Last(trace).err = NoErr
    /\ Last(trace).b.URL = "U2"
    /\ Len(WriteCalls) = 2 /\ WriteCalls[1].b.URL = "U2"
    /\ Cardinality(store) = 3

----------------------------------------------------------------------------
(* main *)

\* the flag's value, the environment's when the flag is empty, the other way round
ResolveTokenEnvFirst(flagValue, envValue) == IF envValue # "" THEN envValue ELSE flagValue

\* if *token == "" { *token = os.Getenv(...) }
ResolveToken(flagValue, envValue) == IF flagValue = "" THEN envValue ELSE flagValue

\* the summary of a dry run printed for every run
SummaryLineAlwaysDone(dry, res) ==
    <<"Done:", ToString(res.Added), "added", ",", ToString(res.Skipped), "skipped", ",",
      ToString(res.Total), "total">>

\* fmt.Printf of the summary, word by word
SummaryLine(dry, res) ==
    IF dry
    THEN <<"Dry run:", ToString(res.Added), "new", ",", ToString(res.Skipped), "existing", ",",
           ToString(res.Total), "total">>
    ELSE <<"Done:", ToString(res.Added), "added", ",", ToString(res.Skipped), "skipped", ",",
           ToString(res.Total), "total">>

\* the action word of a progress line written to standard error
ProgressAction(p, dry) ==
    IF p.Skipped THEN "exists" ELSE IF dry THEN "would add" ELSE "adding"

InitMain ==
    /\ flags \in [github : {"", "flag-gh"}, pinboard : {"", "flag-pb"}, dryRun : BOOLEAN]
    /\ env \in [GITHUB_TOKEN : {"", "env-gh"}, PINBOARD_TOKEN : {"", "env-pb"}]
    /\ githubToken = flags.github
    /\ pinboardToken = flags.pinboard
    /\ mpc = "start"
    /\ stdout = <<>>
    /\ fatal = <<>>
    /\ starred \in SeqsUpTo(Repos, MaxRepos)
    /\ store \in SUBSET PreBookmarks
    /\ dryRun = FALSE /\ hasProgress = FALSE
    /\ pc = "main" /\ repos = <<>> /\ existing = {} /\ total = 0 /\ added = 0
    /\ skipped = 0 /\ i = 0 /\ result = NoResult /\ err = NoErr /\ trace = <<>>
    /\ runNo = 1 /\ prev = NoRun
    /\ ClientIdle
    /\ TagsIdle
    /\ GithubIdle
    /\ LookupIdle
    /\ HeaderIdle

\* the two tokens fall back on the environment
ResolveTokens ==
    /\ mpc = "start"
    /\ githubToken' = ResolveToken(githubToken, env.GITHUB_TOKEN)
    /\ pinboardToken' = ResolveToken(pinboardToken, env.PINBOARD_TOKEN)
    /\ mpc' = "check"
    /\ UNCHANGED <<exportVars, notMainNorExport, flags, env, stdout, fatal>>

FatalGithub ==
    /\ mpc = "check"
    /\ githubToken = ""
    /\ fatal' = <<"GitHub token is required: set GITHUB_TOKEN or use --github-token">>
    /\ mpc' = "exited"
    /\ UNCHANGED <<exportVars, notMainNorExport, flags, env, githubToken, pinboardToken, stdout>>

FatalPinboard ==
    /\ mpc = "check"
    /\ githubToken # ""
    /\ pinboardToken = ""
    /\ fatal' = <<"Pinboard token is required: set PINBOARD_TOKEN or use --pinboard-token">>
    /\ mpc' = "exited"
    /\ UNCHANGED <<exportVars, notMainNorExport, flags, env, githubToken, pinboardToken, stdout>>

\* the clients and the exporter are made, DryRun and OnProgress set, Run is called
CallRun ==
    /\ mpc = "check"
    /\ githubToken # ""
    /\ pinboardToken # ""
    /\ dryRun' = flags.dryRun
    /\ hasProgress' = TRUE
    /\ pc' = "fetch"
    /\ mpc' = "running"
    /\ UNCHANGED <<notMainNorExport, flags, env, githubToken, pinboardToken, stdout, fatal,
                   starred, store, repos, existing, total, added, skipped, i, result, err,
                   trace, runNo, prev>>

\* if err != nil { log.Fatalf("Export failed: %v", err) }
FatalExport ==
    /\ mpc = "running"
    /\ pc = "done"
    /\ err # NoErr
    /\ fatal' = <<"Export failed:", err>>
    /\ mpc' = "exited"
    /\ UNCHANGED <<exportVars, notMainNorExport, flags, env, githubToken, pinboardToken, stdout>>

PrintSummary ==
    /\ mpc = "running"
    /\ pc = "done"
    /\ err = NoErr
    /\ stdout' = Append(stdout, SummaryLine(flags.dryRun, result))
    /\ mpc' = "exited"
    /\ UNCHANGED <<exportVars, notMainNorExport, flags, env, githubToken, pinboardToken, fatal>>

NextMain ==
    \/ ResolveTokens \/ FatalGithub \/ FatalPinboard \/ CallRun
    \/ FetchOk \/ FetchFail \/ LookupOk \/ LookupFail \/ Progress
    \/ Skip \/ DryAdd \/ WriteOk \/ WriteFail \/ Finish
    \/ FatalExport \/ PrintSummary

SpecMain == InitMain /\ [][NextMain]_vars

----------------------------------------------------------------------------
(* main: what is claimed of the command line *)

\* a credential as the user gave it: the flag when it is set, else the environment
Given(flagValue, envValue) == IF flagValue # "" THEN flagValue ELSE envValue

CredentialMissing ==
    \/ Given(flags.github, env.GITHUB_TOKEN) = ""
    \/ Given(flags.pinboard, env.PINBOARD_TOKEN) = ""

\* C18: each credential resolves to its flag when the flag is non-empty and to its
\* environment variable otherwise; when either resolved credential is empty the
\* program exits through log.Fatal without Run being called: no fetch, no lookup and
\* no write is made.
C18_CredentialsOrFatal ==
    /\ mpc # "start" =>
           /\ githubToken = Given(flags.github, env.GITHUB_TOKEN)
           /\ pinboardToken = Given(flags.pinboard, env.PINBOARD_TOKEN)
    /\ CredentialMissing =>
           /\ mpc \in {"start", "check", "exited"}
           /\ pc = "main" /\ trace = <<>> /\ stdout = <<>>
           /\ mpc = "exited" => fatal # <<>>
    /\ mpc = "running" => ~CredentialMissing

C18_Witness ==
    /\ mpc = "exited"
    /\ flags.github = "flag-gh" /\ env.GITHUB_TOKEN = "env-gh"
    /\ flags.pinboard = "" /\ env.PINBOARD_TOKEN = ""
    /\ githubToken = "flag-gh"
    /\ fatal # <<>> /\ trace = <<>> /\ pc = "main"

RunReturned == mpc = "exited" /\ pc = "done"

FatalOnError ==
    RunReturned /\ err # NoErr => fatal = <<"Export failed:", err>> /\ stdout = <<>>

OneLineWithCounts ==
    RunReturned /\ err = NoErr =>
        /\ fatal = <<>>
        /\ Len(stdout) = 1
        /\ stdout[1][2] = ToString(added) /\ stdout[1][5] = ToString(skipped)
        /\ stdout[1][8] = ToString(Len(starred))

\* C19 as stated: when Run returned an error the program exits through log.Fatal and
\* prints no summary, also when the partial result is not zero; when Run succeeded it
\* prints one summary line with the added, skipped and total counts, which says
\* "would add" in a dry run and "added" in a real run.
C19_SummaryWouldAdd ==
    /\ FatalOnError
    /\ OneLineWithCounts
    /\ RunReturned /\ err = NoErr =>
           IF flags.dryRun THEN "would add" \in Range(stdout[1])
                           ELSE "added" \in Range(stdout[1])

\* C19 amended: the summary line of a dry run reads "Dry run: A new, S existing,
\* T total", that of a real run "Done: A added, S skipped, T total".
C19_SummaryDryRunNew ==
    /\ FatalOnError
    /\ OneLineWithCounts
    /\ RunReturned /\ err = NoErr =>
           /\ stdout[1][1] = (IF flags.dryRun THEN "Dry run:" ELSE "Done:")
           /\ stdout[1][3] = (IF flags.dryRun THEN "new" ELSE "added")
           /\ stdout[1][6] = (IF flags.dryRun THEN "existing" ELSE "skipped")
           /\ stdout[1][9] = "total"
           /\ "would add" \notin Range(stdout[1])

\* the run failed at its second write after one bookmark was added: no summary
C19_Witness ==
    /\ RunReturned
    /\ err # NoErr /\ result.Added = 1 /\ result.Total = 3
    /\ fatal = <<"Export failed:", err>> /\ stdout = <<>>

C19_WitnessDryRun ==
    /\ RunReturned /\ flags.dryRun
    /\ stdout = << <<"Dry run:", "2", "new", ",", "1", "existing", ",", "3", "total">> >>

----------------------------------------------------------------------------
(* export: what is claimed of the counters of Run *)

InLoop == pc \in {"loop", "decide"}

\* in the loop added + skipped is the number of items gone through; while the
\* callback for the item numbered Current runs it is Current - 1
SumIsProcessed ==
    /\ InLoop => added + skipped = i
    /\ InLoop /\ hasProgress =>
           added + skipped = Len(Events) - (IF pc = "decide" THEN 1 ELSE 0)
    /\ pc = "decide" /\ hasProgress =>
           Last(trace).op = "OnProgress" /\ added + skipped = Last(trace).Current - 1

ResultSum == result.Added + result.Skipped

\* C20 as stated: at every point of the loop added + skipped is the number of items
\* processed so far (Current - 1 when the callback for item Current runs), and the
\* returned Result has added + skipped = total only when the run returned no error.
C20_SumEqualsTotalOnlyOnSuccess ==
    /\ SumIsProcessed
    /\ pc = "done" /\ ResultSum = result.Total => err = NoErr

\* C20 amended: the returned Result has added + skipped = total when the run returned
\* no error and when it failed before the loop (fetch or lookup failure: the zero
\* Result); it has added + skipped < total exactly when a write failed.
C20_SumBelowTotalIffWriteFailed ==
    /\ SumIsProcessed
    /\ pc = "done" /\ ResultSum = result.Total => err = NoErr \/ FetchFailed \/ LookupFailed
    /\ pc = "done" => (ResultSum < result.Total <=> WriteFailed)
    /\ pc = "done" => ResultSum <= result.Total

C20_Witness ==
    /\ pc = "done" /\ WriteFailed
    /\ result.Added = 1 /\ result.Skipped = 1 /\ result.Total = 3 /\ hasProgress

----------------------------------------------------------------------------
(* export: what is claimed of the returns of Run *)

\* the run got into its loop and has returned
LoopReturned == pc = "done" /\ ~FetchFailed /\ ~LookupFailed

Accumulated == [Total |-> total, Added |-> added, Skipped |-> skipped]

\* C21 as stated: the return that ends the loop carries the accumulated Result and
\* a nil error, when every item was processed and also when the loop was left
\* through the write-error path.
C21_NilErrorAlsoAfterWriteError ==
    LoopReturned => result = Accumulated /\ err = NoErr

\* C21 amended: the return carries the accumulated Result; its error is nil when
\* every item was processed, and it is the error of the failed write when the loop
\* was left through the write-error path.
C21_WriteErrorIsReturned ==
    LoopReturned =>
        /\ result = Accumulated
        /\ ~WriteFailed => err = NoErr /\ i = Len(repos)
        /\ WriteFailed => err # NoErr /\ err = Last(trace).err /\ i < Len(repos)

C21_Witness ==
    /\ LoopReturned /\ WriteFailed
    /\ result = [Total |-> 2, Added |-> 1, Skipped |-> 0]
    /\ err = "context canceled"

----------------------------------------------------------------------------
(* export: what is claimed of the order of the calls of a run *)

BothReadsSucceeded ==
    /\ Len(trace) >= 2
    /\ trace[1].err = NoErr
    /\ trace[2].op = "GetBookmarkURLsByTag" /\ trace[2].err = NoErr

\* C22: in every run the fetch is the first call, the lookup the second, made only
\* after the fetch succeeded, and progress events and writes come only after both
\* succeeded; events and writes follow the fetch order of the items; a write comes
\* right after the event of its item, and while the decision on an item is pending
\* its event is the last thing that happened and the item is not yet counted or written.
C22_CallOrder ==
    /\ \A k \in 1..Len(trace) :
           /\ trace[k].op = "GetStarredRepos" <=> k = 1
           /\ trace[k].op = "GetBookmarkURLsByTag" => k = 2 /\ trace[1].err = NoErr
           /\ trace[k].op \in {"OnProgress", "AddBookmark"} => k >= 3 /\ BothReadsSucceeded
           /\ trace[k].op = "AddBookmark" /\ hasProgress =>
                  /\ trace[k - 1].op = "OnProgress"
                  /\ trace[k - 1].RepoName = trace[k].b.Title
                  /\ ~trace[k - 1].Skipped
    /\ \A k \in 1..Len(Events) :
           /\ k <= Len(repos)
           /\ Events[k].Current = k /\ Events[k].RepoName = repos[k].FullName
    /\ \A k \in 1..Len(WriteCalls) :
           k <= Len(NewBookmarks) /\ WriteCalls[k].b = NewBookmarks[k]
    /\ pc = "decide" /\ hasProgress =>
           /\ Last(trace).op = "OnProgress"
           /\ Last(trace).Current = i + 1
           /\ Last(trace).RepoName = repos[i + 1].FullName
           /\ added + skipped = i
           /\ Len(WriteCalls) <= CountNew(i)

\* the event of the second item is out, its write is pending, the first is written
C22_Witness ==
    /\ pc = "decide" /\ hasProgress /\ ~dryRun
    /\ repos = <<RepoA, RepoB, RepoC>> /\ i = 1
    /\ Len(WriteCalls) = 1 /\ WriteCalls[1].b.URL = "U1"
    /\ Last(trace).op = "OnProgress" /\ Last(trace).RepoName = "b/two" /\ ~Last(trace).Skipped

----------------------------------------------------------------------------
(* export: what is claimed of retries *)

FailedWrites == SelectSeq(WriteCalls, LAMBDA w : w.err # NoErr)

\* the items gone through so far, the one under decision included once it was written
ItemsDecided == IF WriteFailed THEN i + 1 ELSE i

\* C23: a run makes at most one write call per fetched item: the writes so far are as
\* many as the non-skipped items among the items gone through, never more than the
\* non-skipped items of the run; at most one write fails, and the failed write is the
\* last call of the run: Run has returned and no write, event or collaborator call follows.
C23_NoRetry ==
    /\ Len(trace) >= 2 =>
           /\ Len(WriteCalls) <= Len(NewRepos)
           /\ Len(WriteCalls) = (IF dryRun THEN 0 ELSE CountNew(ItemsDecided))
    /\ Len(FailedWrites) <= 1
    /\ WriteFailed =>
           /\ pc = "done"
           /\ Last(trace).op = "AddBookmark" /\ Last(trace).err # NoErr
           /\ \A k \in 1..(Len(trace) - 1) : trace[k].op = "OnProgress" \/ trace[k].err = NoErr

C23_Witness ==
    /\ WriteFailed /\ pc = "done"
    /\ repos = <<RepoB, RepoB, RepoA>> /\ existing = {}
    /\ Len(WriteCalls) = 2 /\ WriteCalls[1].err = NoErr /\ WriteCalls[2].err # NoErr
    /\ WriteCalls[1].b = WriteCalls[2].b

----------------------------------------------------------------------------
(* export: what is claimed of the reads of a run *)

Fetches == Ops("GetStarredRepos")
Lookups == Ops("GetBookmarkURLsByTag")

RunStarted == pc # "fetch"

\* once the lookup has answered, Run holds the fetched items and the existing-URL set
HoldsReads == pc \in {"loop", "decide", "done"} /\ BothReadsSucceeded

\* C24: a run fetches the starred items exactly once and looks the existing URLs up
\* at most once, with the tag "github-repo", and does so only after a successful
\* fetch; from the moment the set is returned until Run returns, no step changes the
\* set or the fetched items, whatever the run's outcome.
C24_ReadsOnceAndUnchanged ==
    /\ [](RunStarted => Len(Fetches) = 1)
    /\ [](Len(Lookups) <= 1)
    /\ [](\A k \in 1..Len(Lookups) : Lookups[k].tag = Sentinel)
    /\ [](pc \in {"loop", "decide"} => Len(Lookups) = 1)
    /\ [][HoldsReads /\ pc # "done" => existing' = existing /\ repos' = repos]_vars

\* the run has written a new bookmark into the store; its set is as it was returned
C24_Witness ==
    /\ pc = "done" /\ BothReadsSucceeded
    /\ repos = <<RepoA, RepoC>> /\ existing = {"U3"}
    /\ Len(WriteCalls) = 1 /\ WriteCalls[1].err = NoErr
    /\ StoreURLsByTag(store, Sentinel) = {"U1", "U3"}

----------------------------------------------------------------------------
(* export: what is claimed of the store after a run *)

CompleteRealRun == pc = "done" /\ err = NoErr /\ ~dryRun

WrittenTagged(u) ==
    \E k \in 1..Len(WriteCalls) :
        /\ WriteCalls[k].b.URL = u
        /\ WriteCalls[k].err = NoErr
        /\ Sentinel \in Range(WriteCalls[k].b.Tags)

\* C25: after a non-dry run that returned a nil error, the URL of every fetched item
\* is among the store's bookmarks tagged "github-repo": it was in the existing-URL
\* set, or a bookmark for it carrying the sentinel tag was written in the run.
C25_AllItemsInTaggedSet ==
    CompleteRealRun =>
        \A k \in 1..Len(repos) :
            /\ repos[k].HTMLURL \in StoreURLsByTag(store, Sentinel)
            /\ repos[k].HTMLURL \in existing \/ WrittenTagged(repos[k].HTMLURL)

C25_Witness ==
    /\ CompleteRealRun
    /\ repos = <<RepoC, RepoA, RepoB>> /\ existing = {"U3"}
    /\ Len(WriteCalls) = 2
    /\ StoreURLsByTag(store, Sentinel) = {"U1", "U2", "U3"}

----------------------------------------------------------------------------
(* export: what is claimed of items with the same URL *)

\* the positions of the fetched sequence that hold URL u
PositionsOf(u) == {k \in 1..Len(repos) : repos[k].HTMLURL = u}
WritesOf(u)    == {n \in 1..Len(WriteCalls) : WriteCalls[n].b.URL = u}
NewURLs        == {repos[k].HTMLURL : k \in 1..Len(repos)} \ existing

CompleteRun == pc = "done" /\ err = NoErr

\* C26: the writes of a run do not enter its existing-URL set: in a run that returned
\* nil, every occurrence of a URL that is not in the set is counted in added, and in a
\* real run written, once per occurrence; so with a URL fetched twice added exceeds
\* the number of distinct new URLs.
C26_DuplicatesAllAdded ==
    CompleteRun =>
        /\ result.Added = Cardinality({k \in 1..Len(repos) : repos[k].HTMLURL \notin existing})
        /\ result.Added >= Cardinality(NewURLs)
        /\ \A u \in NewURLs :
               /\ Cardinality(WritesOf(u)) = (IF dryRun THEN 0 ELSE Cardinality(PositionsOf(u)))
               /\ Cardinality(PositionsOf(u)) >= 2 => result.Added > Cardinality(NewURLs)

C26_Witness ==
    /\ CompleteRun /\ ~dryRun
    /\ repos = <<RepoB, RepoA, RepoB>> /\ existing = {"U1"}
    /\ result = [Total |-> 3, Added |-> 2, Skipped |-> 1]
    /\ Cardinality(WritesOf("U2")) = 2

C26_WitnessDryRun ==
    /\ CompleteRun /\ dryRun
    /\ repos = <<RepoB, RepoB>> /\ existing = {}
    /\ result.Added = 2 /\ WriteCalls = <<>>

----------------------------------------------------------------------------
(* export: a dry run followed by a real run on the same accounts *)

InitDryReal ==
    /\ starred \in SeqsUpTo(Repos, MaxRepos)
    /\ store \in SUBSET PreBookmarks
    /\ dryRun = TRUE
    /\ hasProgress \in BOOLEAN
    /\ RunLocalsInit
    /\ runNo = 1
    /\ prev = NoRun
    /\ ClientIdle
    /\ TagsIdle
    /\ GithubIdle
    /\ LookupIdle
    /\ HeaderIdle
    /\ MainIdle

\* the caller keeps what the dry run returned and reported, and runs the Exporter
\* again with DryRun off and the same callback
RunRealAfterDry ==
    /\ pc = "done"
    /\ runNo = 1
    /\ prev' = [run |-> runNo, dry |-> dryRun, ok |-> (err = NoErr), result |-> result,
                events |-> Events, writes |-> WriteCalls, repos |-> repos,
                existing |-> existing]
    /\ runNo' = 2
    /\ dryRun' = FALSE
    /\ pc' = "fetch" /\ repos' = <<>> /\ existing' = {} /\ total' = 0 /\ added' = 0
    /\ skipped' = 0 /\ i' = 0 /\ result' = NoResult /\ err' = NoErr /\ trace' = <<>>
    /\ UNCHANGED <<notExport, starred, store, hasProgress>>

NextDryReal ==
    \/ FetchOk \/ FetchFail \/ LookupOk \/ LookupFail \/ Progress
    \/ Skip \/ DryAdd \/ WriteOk \/ WriteFail \/ Finish \/ RunRealAfterDry

SpecDryReal == InitDryReal /\ [][NextDryReal]_vars

\* both runs returned nil
BothComplete == runNo = 2 /\ prev.ok /\ pc = "done" /\ err = NoErr

\* C27: a dry run and a real run on the same fetched sequence and the same
\* existing-URL set, with no write failing, return the same Result and deliver the
\* same progress events; the dry run issued no write, the real run one per added item.
C27_DryRunEqualsRealRun ==
    BothComplete =>
        /\ repos = prev.repos /\ existing = prev.existing
        /\ result = prev.result
        /\ Events = prev.events
        /\ prev.writes = <<>>
        /\ Len(WriteCalls) = result.Added

C27_Witness ==
    /\ BothComplete /\ hasProgress
    /\ repos = <<RepoA, RepoB, RepoC>> /\ existing = {"U3"}
    /\ result = [Total |-> 3, Added |-> 2, Skipped |-> 1]
    /\ Len(Events) = 3 /\ Len(WriteCalls) = 2

----------------------------------------------------------------------------
(* export: what is claimed of the events of a run whose write failed *)

\* C28: when a write fails and a progress callback is registered, the callback was
\* invoked for the failing item, with skipped = false, right before the write: the
\* events of the run are added + skipped + 1 of the returned Result and the last one
\* names the item whose write failed. (With no callback registered there is no event.)
C28_EventBeforeFailedWrite ==
    WriteFailed =>
        /\ pc = "done"
        /\ hasProgress =>
               /\ Len(Events) = result.Added + result.Skipped + 1
               /\ Last(Events) = trace[Len(trace) - 1]
               /\ Last(Events).RepoName = Last(trace).b.Title
               /\ Last(Events).RepoName = repos[i + 1].FullName
               /\ Last(Events).Current = result.Added + result.Skipped + 1
               /\ ~Last(Events).Skipped
        /\ ~hasProgress => Events = <<>>

C28_Witness ==
    /\ WriteFailed /\ hasProgress
    /\ repos = <<RepoA, RepoC, RepoB>> /\ existing = {"U1"}
    /\ result = [Total |-> 3, Added |-> 1, Skipped |-> 1]
    /\ Len(Events) = 3 /\ Last(Events).RepoName = "b/two"

----------------------------------------------------------------------------
(* pinboard: what is claimed of the last-call timestamp *)

\* the call ended in the select, on ctx.Done()
EndedByCancellation == cpc = "returned" /\ ctxErr # NoErr /\ ret = Bare(ctxErr)

\* the call got past the gate and has returned, whatever the request came to
EndedPastGate == cpc = "returned" /\ ~EndedByCancellation

\* C29: a wait that ends by cancellation leaves lastCall as it was and sends nothing;
\* every call that gets past the gate sets lastCall to the current time before the
\* request is sent, and it stays so when the request fails; so gate passages are
\* MinDelay apart also after cancelled and failed calls, and a call that has to wait,
\* also one following a cancelled call, waits for what is left of MinDelay since the
\* last passage: its timer is not due before MinDelay after that passage.
C29_LastCallFrame ==
    /\ [](EndedByCancellation => lastCall = lastAtCall /\ requests = reqAtCall)
    /\ [][cpc = "pass" /\ cpc' = "send" => lastCall' = now /\ requests' = requests]_vars
    /\ [](cpc = "send" => lastCall = Last(passes) /\ requests = reqAtCall)
    /\ [](EndedPastGate =>
              /\ lastCall = Last(passes)
              /\ lastCall > lastAtCall
              /\ lastAtCall # NoTime => lastCall - lastAtCall >= MinDelay)
    /\ [](\A k \in 1..(Len(passes) - 1) : passes[k + 1] - passes[k] >= MinDelay)
    /\ [](cpc \in {"timer", "select", "parked"} =>
              /\ passes # <<>>
              /\ lastCall = Last(passes) /\ lastCall = lastAtCall
              /\ elapsed >= 0 /\ elapsed < MinDelay)
    /\ [](cpc \in {"select", "parked"} => deadline >= Last(passes) + MinDelay)

\* the third call waits on the window of the first: the second was cancelled in its wait
C29_Witness ==
    /\ nCalls = 3 /\ Len(passes) = 1
    /\ cpc = "parked" /\ wake = "none"
    /\ now = passes[1] + 2
    /\ deadline = passes[1] + MinDelay

\* a call whose request failed has stamped the client
C29_WitnessFailed ==
    /\ EndedPastGate /\ ret # Bare(NoErr)
    /\ response.status = 500
    /\ lastCall = Last(passes) /\ Len(passes) = 2

----------------------------------------------------------------------------
(* github: what is claimed of the end of GetStarredRepos *)

\* the scheduler lets the call take its next step
SpecGithubFair == SpecGithub /\ WF_vars(NextGithub)

\* a page the loop reads to its end
PageRead(resp) ==
    /\ resp.transport /\ resp.status = 200 /\ resp.body.json
    /\ \A j \in 1..Len(resp.body.items) : ParseRFC3339(resp.body.items[j].StarredAt).ok

\* the server answered the same URL the same way each time, every page was read to
\* its end, and some URL was requested twice: the next links form a cycle
Cycling ==
    /\ \A k \in 1..Len(served) : PageRead(served[k].resp)
    /\ \A j \in 1..Len(served) : \A k \in 1..Len(served) :
           served[j].url = served[k].url => served[j].resp = served[k].resp
    /\ \E j \in 1..Len(served) : \E k \in 1..Len(served) :
           j < k /\ served[j].url = served[k].url

\* C30: each request is for the first URL or for the URL the page before it names as
\* next, that page having been read to its end: one request per page, none after a
\* page without a rel="next" entry, at which the call returns; a URL named as next
\* is requested whether or not it was requested before, so when the next links form
\* a cycle the call has not returned and is about to request again, however many
\* requests it made; a call with no page left to request returns.
C30_OneRequestPerPageNoGuard ==
    /\ [](served # <<>> => served[1].url = FirstURL)
    /\ [](\A k \in 2..Len(served) :
              /\ PageRead(served[k - 1].resp)
              /\ extractNextURL(served[k - 1].resp.link) # <<>>
              /\ served[k].url = extractNextURL(served[k - 1].resp.link))
    /\ [](gpc = "loop" /\ served # <<>> => url = extractNextURL(Last(served).resp.link))
    /\ [](GhSucceeded => extractNextURL(Last(served).resp.link) = <<>>)
    /\ [](Cycling => gpc = "loop" /\ url # <<>> /\ url # BadURL)
    /\ ((gpc = "loop" /\ url = <<>>) ~> (gpc = "returned"))

\* the pages point at each other in a cycle: the call has used up the requests the
\* model allows it and wants another
C30_Witness ==
    /\ Cycling
    /\ Len(served) = MaxRequests
    /\ gpc = "loop" /\ url = <<"p1">>
    /\ \A k \in 1..Len(served) : served[k].url = <<"p1">>

\* a chain of two pages: the call returned after two requests
C30_WitnessChain ==
    /\ GhSucceeded /\ Len(served) = 2
    /\ served[1].url = <<"p1">> /\ served[2].url = <<"p2">>

----------------------------------------------------------------------------
(* export: NormaliseTags applied to its own result *)

\* NormaliseTags is called on what NormaliseTags returned
CallNormaliseTagsAgain ==
    /\ tpc = "tags"
    /\ tagsOut' = NormaliseTags(tagsOut)
    /\ tpc' = "tags2"
    /\ UNCHANGED <<notTags, repoIn, bookmarkOut>>

NextTagsTwice == CallNormaliseTags \/ CallNormaliseTagsAgain

SpecTagsTwice == InitTags /\ [][NextTagsTwice]_vars

\* lowercase, no spaces
IsNormalised(tags) ==
    \A k \in 1..Len(tags) : \A j \in 1..Len(tags[k]) :
        ~IsUpperCase(tags[k][j]) /\ tags[k][j] # " "

\* C31: NormaliseTags applied to what NormaliseTags returned returns it again, and
\* a first call on topics that are already lowercase and without spaces returns
\* the topics as they are.
C31_Idempotent ==
    /\ [][tpc = "tags" /\ tpc' = "tags2" => tagsOut' = tagsOut]_vars
    /\ [][tpc = "in" /\ tpc' = "tags" /\ IsNormalised(repoIn.Topics)
              => tagsOut' = repoIn.Topics]_vars
    /\ [](tpc = "tags2" => IsNormalised(tagsOut) /\ Len(tagsOut) = Len(repoIn.Topics))

\* the second call was given hyphens the first call made of spaces
C31_Witness ==
    /\ tpc = "tags2"
    /\ repoIn.Topics = << <<"A", " ">>, <<" ", "b">> >>
    /\ tagsOut = << <<"a", "-">>, <<"-", "b">> >>

\* topics already normalised came back from the first call
C31_WitnessUnchanged ==
    /\ tpc = "tags"
    /\ repoIn.Topics = << <<"b", "b">>, <<"b">> >>
    /\ tagsOut = repoIn.Topics

----------------------------------------------------------------------------
(* github: extractNextURL applied to Link headers put together from entries *)

MaxEntries == 3   \* most comma-separated entries in one Link header

\* an entry as written (text), and what is written in it: the number of its
\* ';'-separated parts, its second part without the spaces around it (rel), and its
\* first part without spaces and angle brackets around it (u)
Entry(text, parts, rel, u) == [text |-> text, parts |-> parts, rel |-> rel, u |-> u]

LinkForms ==
    {Entry(LinkEntry(u, RelNext), 2, <<RelNext>>, u) : u \in {<<"p2">>, <<"p3">>}} \cup
    {Entry(<<"<", "p2", ">", ";", RelNext>>, 2, <<RelNext>>, <<"p2">>),
     Entry(<<" ", "<", "p2", ">", " ", ";", " ", " ", RelNext, " ">>, 2, <<RelNext>>, <<"p2">>),
     Entry(<<"p2", ";", " ", RelNext>>, 2, <<RelNext>>, <<"p2">>),
     Entry(LinkEntry(<<"p9">>, RelLast), 2, <<RelLast>>, <<"p9">>),
     Entry(LinkEntry(<<"p1">>, RelPrev), 2, <<RelPrev>>, <<"p1">>),
     Entry(LinkExtraParam(<<"p2">>), 3, <<RelNext>>, <<"p2">>),
     Entry(<<"<", "p2", ">", ";", " ", "x", ";", " ", RelNext>>, 3, <<"x">>, <<"p2">>),
     Entry(LinkEntry(<<"p2">>, "rel=next"), 2, <<"rel=next">>, <<"p2">>),
     Entry(<<"<", "p2", ">", ";", " ", "rel", "=", " ", "\"next\"">>, 2,
           <<"rel", "=", " ", "\"next\"">>, <<"p2">>),
     Entry(<<RelNext, ";", " ", "<", "p2", ">">>, 2, <<"<", "p2", ">">>, <<RelNext>>),
     Entry(<<"<", "p2", ">">>, 1, <<>>, <<"p2">>),
     Entry(<<>>, 1, <<>>, <<>>),
     \* the two halves of an entry whose URL holds a comma
     Entry(<<"<", "p2">>, 1, <<>>, <<"p2">>),
     Entry(<<"p3", ">", ";", " ", RelNext>>, 2, <<RelNext>>, <<"p3">>),
     \* an entry whose URL holds a semicolon
     Entry(<<"<", "p2", ";", "p3", ">", ";", " ", RelNext>>, 3, <<"p3", ">">>, <<"p2">>)}

\* the header: the entries' texts with the separator between them
RECURSIVE RenderHeader(_, _)
RenderHeader(entries, sep) ==
    IF entries = <<>> THEN <<>>
    ELSE IF Len(entries) = 1 THEN entries[1].text
    ELSE entries[1].text \o sep \o RenderHeader(Tail(entries), sep)

InitHeader ==
    /\ linkIn \in [entries : SeqsUpTo(LinkForms, MaxEntries), sep : {<<",">>, <<",", " ">>}]
    /\ nextURL = <<>>
    /\ hpc = "in"
    /\ ExportIdle
    /\ ClientIdle
    /\ TagsIdle
    /\ GithubIdle
    /\ LookupIdle
    /\ MainIdle

\* extractNextURL(linkHeader) is called
CallExtractNextURL ==
    /\ hpc = "in"
    /\ nextURL' = extractNextURL(RenderHeader(linkIn.entries, linkIn.sep))
    /\ hpc' = "out"
    /\ UNCHANGED <<notHeader, linkIn>>

NextHeader == CallExtractNextURL

SpecHeader == InitHeader /\ [][NextHeader]_vars

----------------------------------------------------------------------------
(* github: what is claimed of extractNextURL *)

\* an entry of exactly two parts whose second part is rel="next"
IsFollowed(e) == e.parts = 2 /\ e.rel = <<RelNext>>

\* C32: extractNextURL returns the URL, without its angle brackets, of the first
\* comma-separated entry that has exactly two ';'-separated parts and whose second
\* part, trimmed, is rel="next"; it returns "" for an empty header and when there is
\* no such entry: an entry with a further parameter, or with rel written another
\* way, is passed over.
C32_FirstTwoPartNextEntry ==
    hpc = "out" =>
        LET es == linkIn.entries
            followed == {k \in 1..Len(es) : IsFollowed(es[k])}
        IN  /\ followed # {} =>
                \E k \in followed : /\ \A j \in followed : k <= j
                                    /\ nextURL = es[k].u
            /\ followed = {} => nextURL = <<>>
            /\ RenderHeader(es, linkIn.sep) = <<>> => nextURL = <<>>

\* an entry with a further parameter and one with rel="last" come first; the third
\* is followed
C32_Witness ==
    /\ hpc = "out"
    /\ Len(linkIn.entries) = 3
    /\ linkIn.entries[1].text = LinkExtraParam(<<"p2">>)
    /\ linkIn.entries[2].text = LinkEntry(<<"p9">>, RelLast)
    /\ linkIn.entries[3].text = LinkEntry(<<"p3">>, RelNext)
    /\ nextURL = <<"p3">>

\* nothing but an entry with a further parameter and one with rel=next unquoted
C32_WitnessNone ==
    /\ hpc = "out"
    /\ Len(linkIn.entries) = 2
    /\ linkIn.entries[1].text = LinkExtraParam(<<"p2">>)
    /\ linkIn.entries[2].text = LinkEntry(<<"p2">>, "rel=next")
    /\ nextURL = <<>>

====
